---- MODULE Spec2Model ----
(***************************************************************************)
(* Seat allocation: the allocator's select_seat (allocator.py), the seat   *)
(* inventory (seat_inventory.py), the employee directory, the arrival      *)
(* stream (access_stream.py), the notifiers, the energy optimizer and the  *)
(* orchestrator's process_event and run_once (process_orchestrator.py).    *)
(*                                                                         *)
(* Buildings "B1","B2" and floors "F1","F2" are the numbers 1, 2: the only *)
(* use of their order is min() over (building, floor) pairs, and the       *)
(* strings order as their digits do.  A seat_id is the seat's position in  *)
(* the inventory; the text after its last "-" is given by SeatIdSuffix.    *)
(* Scores are the code's floats times ScoreScale, which makes every term   *)
(* an integer.                                                             *)
(***************************************************************************)
EXTENDS Integers, Sequences, FiniteSets, TLC

VARIABLES
    seats,            \* SeatInventoryClient._seats: seat_id -> Seat, in insertion order
    beam_width,       \* SeatAllocator.beam_width
    last_employee,    \* select_seat's employee argument in the latest call (or NoEmployee)
    last_candidates,  \* select_seat's candidate_seats argument, as seat_ids in order
    last_result,      \* what the latest select_seat / process_event call returned
    assignments,      \* the assignments process_event has returned, in order
    sent_emails,      \* EmailNotifier.sent_messages
    sent_sms,         \* MessageNotifier.sent_messages
    command_history,  \* IoTDeviceClient.command_history, one entry per optimize() result
    events,           \* AccessControlStream._events
    pending_at_call,  \* _events as the latest run_once call found it
    ordered_batch,    \* run_once's ordered_batch when the call ended
    run_once_result,  \* how the latest run_once call ended (or NotCalled)
    in_flight         \* per caller: the process_event call between select_seat and mark_occupied

vars == <<seats, beam_width, last_employee, last_candidates, last_result, assignments,
          sent_emails, sent_sms, command_history,
          events, pending_at_call, ordered_batch, run_once_result, in_flight>>

\* What process_event writes apart from the inventory.
notified == <<sent_emails, sent_sms, command_history>>

\* What run_once and the arrival stream write.
run_vars == <<events, pending_at_call, ordered_batch, run_once_result>>

-----------------------------------------------------------------------------
(* Values *)

None == "None"

NoZone == <<0, 0, None>>

NoAssignment == [kind |-> "none"]

\* The call has not returned yet.
Pending == [kind |-> "pending"]

\* run_once has not been called.
NotCalled == [kind |-> "not called"]

\* The callers of process_event, and a caller that is in no call past select_seat.
Callers == {1, 2}

Idle == [kind |-> "idle"]

NoneInFlight == [ caller \in Callers |-> Idle ]

NoEmployee == [employee_id |-> None, department |-> None, team |-> None]

-----------------------------------------------------------------------------
(* The seats and the employees the model runs on *)

\* A digit suffix is its number; NonDigit stands for a suffix that is not all digits.
NonDigit == 0 - 1

\* seat_id -> (building, floor, zone) and the text after the id's last "-".
SeatLocation ==
    << <<1, 1, "A">>, <<1, 1, "A">>, <<1, 1, "A">>, <<1, 1, "A">>,
       <<1, 1, "B">>,
       <<1, 2, "A">>, <<1, 2, "A">>,
       <<2, 1, "A">> >>

SeatIdSuffix == <<1, 2, 26, 51, 1, 50, 51, NonDigit>>

SeatIds == DOMAIN SeatLocation

\* EmployeeDirectoryClient._employees
EmployeeTable ==
    [ E1 |-> [employee_id |-> "E1", department |-> "Dept-A", team |-> "Team-A1"],
      E2 |-> [employee_id |-> "E2", department |-> "Dept-A", team |-> "Team-A2"],
      E3 |-> [employee_id |-> "E3", department |-> "Dept-B", team |-> "Team-B1"],
      E4 |-> [employee_id |-> "E4", department |-> "Dept-C", team |-> "Team-C1"] ]

EmployeeIds == DOMAIN EmployeeTable

\* An id the directory does not hold.
UnknownEmployeeId == "E9"

get_employee(employee_id) ==
    IF employee_id \in EmployeeIds THEN EmployeeTable[employee_id] ELSE NoEmployee

Seat(seat_id, department, team_cluster) ==
    [ seat_id             |-> seat_id,
      building            |-> SeatLocation[seat_id][1],
      floor               |-> SeatLocation[seat_id][2],
      zone                |-> SeatLocation[seat_id][3],
      department          |-> department,
      team_cluster        |-> team_cluster,
      status              |-> "available",
      occupied_by         |-> None,
      occupied_department |-> None,
      occupied_team       |-> None ]

-----------------------------------------------------------------------------
(* Sequences *)

Range(seq) == { seq[i] : i \in DOMAIN seq }

\* The sub-sequence of seq at the positions in idx, in order.
RECURSIVE SubSeqAt(_, _)
SubSeqAt(seq, idx) ==
    IF idx = {} THEN <<>>
    ELSE LET i == CHOOSE x \in idx : \A y \in idx : x <= y
         IN  <<seq[i]>> \o SubSeqAt(seq, idx \ {i})

Filter(seq, Keep(_)) == SubSeqAt(seq, { i \in DOMAIN seq : Keep(seq[i]) })

\* <<Op(1), ..., Op(n)>>
Tabulate(n, Op(_)) ==
    LET RECURSIVE UpTo(_)
        UpTo(k) == IF k = 0 THEN <<>> ELSE Append(UpTo(k - 1), Op(k))
    IN  UpTo(n)

\* sorted(seq, key=..., reverse=True), keys[i] being the key of seq[i]: descending
\* by key, equal keys in their order in seq (the sort is stable).
SortedDescending(seq, keys) ==
    LET Before(i) ==
            Cardinality({ j \in DOMAIN seq :
                            \/ keys[j] > keys[i]
                            \/ keys[j] = keys[i] /\ j < i })
    IN  Tabulate(Len(seq), LAMBDA p : seq[CHOOSE i \in DOMAIN seq : Before(i) = p - 1])

\* seq[:n] for n >= 0
Take(seq, n) == SubSeq(seq, 1, IF n < Len(seq) THEN n ELSE Len(seq))

-----------------------------------------------------------------------------
(* allocator.py: the occupancy aggregates of one select_seat call *)

ZoneKey(seat) == <<seat.building, seat.floor, seat.zone>>

FloorKey(seat) == <<seat.building, seat.floor>>

\* An aggregate key that reads the seat's template department even when the
\* occupant's department is recorded.
OccupiedDepartment_template(seat) == seat.department

\* seat.occupied_department or seat.department
OccupiedDepartment(seat) ==
    IF seat.occupied_department # None THEN seat.occupied_department ELSE seat.department

\* seat.occupied_team or seat.team_cluster
OccupiedTeam(seat) ==
    IF seat.occupied_team # None THEN seat.occupied_team ELSE seat.team_cluster

IsOccupied(seat) == seat.status = "occupied"

IsAvailable(seat) == seat.status = "available"

\* The positions of all_seats holding an occupied seat: the order of `occupied`.
OccupiedIdx(all_seats) == { i \in DOMAIN all_seats : IsOccupied(all_seats[i]) }

MatchesDepartment(employee, seat) == OccupiedDepartment(seat) = employee.department

MatchesTeam(employee, seat) ==
    MatchesDepartment(employee, seat) /\ OccupiedTeam(seat) = employee.team

zone_load(all_seats, zone_key) ==
    Cardinality({ i \in OccupiedIdx(all_seats) : ZoneKey(all_seats[i]) = zone_key })

floor_load(all_seats, floor_key) ==
    Cardinality({ i \in OccupiedIdx(all_seats) : FloorKey(all_seats[i]) = floor_key })

zone_departments(all_seats, zone_key) ==
    { OccupiedDepartment(all_seats[i]) :
        i \in { j \in OccupiedIdx(all_seats) : ZoneKey(all_seats[j]) = zone_key } }

dept_zone_counts(employee, all_seats, zone_key) ==
    Cardinality({ i \in OccupiedIdx(all_seats) :
                    /\ ZoneKey(all_seats[i]) = zone_key
                    /\ MatchesDepartment(employee, all_seats[i]) })

team_zone_counts(employee, all_seats, zone_key) ==
    Cardinality({ i \in OccupiedIdx(all_seats) :
                    /\ ZoneKey(all_seats[i]) = zone_key
                    /\ MatchesTeam(employee, all_seats[i]) })

\* most_common with a tie won by the key inserted last.
MostCommon_last_on_tie(idx, keys, counts, NoKey) ==
    IF idx = {} THEN NoKey
    ELSE LET best == CHOOSE i \in idx :
                        \A j \in idx : counts[j] < counts[i] \/ (counts[j] = counts[i] /\ j <= i)
         IN  keys[best]

\* Counter.most_common(1)[0][0] over a counter filled in the order of idx: the key
\* of the largest count, the key inserted first among equal counts; NoKey when
\* the counter is empty.
\* idx holds the positions that count; keys[i] is the key position i counts for
\* and counts[i] that key's count.
MostCommon(idx, keys, counts, NoKey) ==
    IF idx = {} THEN NoKey
    ELSE LET best == CHOOSE i \in idx :
                        \A j \in idx : counts[j] < counts[i] \/ (counts[j] = counts[i] /\ i <= j)
         IN  keys[best]

\* team_zone_counts.most_common(1)[0][0] if team_zone_counts else None
TeamAnchor(employee, all_seats) ==
    MostCommon({ i \in OccupiedIdx(all_seats) : MatchesTeam(employee, all_seats[i]) },
               Tabulate(Len(all_seats), LAMBDA i : ZoneKey(all_seats[i])),
               Tabulate(Len(all_seats),
                        LAMBDA i : team_zone_counts(employee, all_seats, ZoneKey(all_seats[i]))),
               NoZone)

\* dept_zone_counts.most_common(1)[0][0] if dept_zone_counts else None
DeptAnchor(employee, all_seats) ==
    MostCommon({ i \in OccupiedIdx(all_seats) : MatchesDepartment(employee, all_seats[i]) },
               Tabulate(Len(all_seats), LAMBDA i : ZoneKey(all_seats[i])),
               Tabulate(Len(all_seats),
                        LAMBDA i : dept_zone_counts(employee, all_seats, ZoneKey(all_seats[i]))),
               NoZone)

\* floor_load.most_common(1)[0][0]
MostLoadedFloor(all_seats) ==
    MostCommon(OccupiedIdx(all_seats),
               Tabulate(Len(all_seats), LAMBDA i : FloorKey(all_seats[i])),
               Tabulate(Len(all_seats),
                        LAMBDA i : floor_load(all_seats, FloorKey(all_seats[i]))),
               <<0, 0>>)

available_same_dept_by_zone(employee, all_seats, zone_key) ==
    Cardinality({ i \in DOMAIN all_seats :
                    /\ IsAvailable(all_seats[i])
                    /\ ZoneKey(all_seats[i]) = zone_key
                    /\ all_seats[i].department = employee.department })

available_same_team_by_zone(employee, all_seats, zone_key) ==
    Cardinality({ i \in DOMAIN all_seats :
                    /\ IsAvailable(all_seats[i])
                    /\ ZoneKey(all_seats[i]) = zone_key
                    /\ all_seats[i].department = employee.department
                    /\ all_seats[i].team_cluster = employee.team })

-----------------------------------------------------------------------------
(* allocator.py: seat numbers and the section heuristic *)

\* seat.seat_id.split("-")[-1]
Suffix(seat) == SeatIdSuffix[seat.seat_id]

\* suffix.isdigit()
IsDigit(suffix) == suffix >= 0

Min(S) == CHOOSE x \in S : \A y \in S : x <= y

Max(S) == CHOOSE x \in S : \A y \in S : y <= x

Abs(x) == IF x < 0 THEN 0 - x ELSE x

\* The occupied seats of zone_key that carry a digit suffix and whose occupant
\* department is department: the seats zone_dept_min_suffix[zone_key][department]
\* is the minimum over.
DeptDigitSeats(all_seats, zone_key, department) ==
    { i \in OccupiedIdx(all_seats) :
        /\ ZoneKey(all_seats[i]) = zone_key
        /\ OccupiedDepartment(all_seats[i]) = department
        /\ IsDigit(Suffix(all_seats[i])) }

\* zone_dept_min_suffix.get(zone_key, {}).get(department, 1)
DeptMinSuffix(all_seats, zone_key, department) ==
    IF DeptDigitSeats(all_seats, zone_key, department) = {} THEN 1
    ELSE Min({ Suffix(all_seats[i]) : i \in DeptDigitSeats(all_seats, zone_key, department) })

\* The occupied seats of zone_key of the employee's department and team with a
\* digit suffix: the seats behind team_suffix_totals / counts / max.
TeamDigitSeats(employee, all_seats, zone_key) ==
    { i \in OccupiedIdx(all_seats) :
        /\ ZoneKey(all_seats[i]) = zone_key
        /\ MatchesTeam(employee, all_seats[i])
        /\ IsDigit(Suffix(all_seats[i])) }

team_suffix_counts_by_zone(employee, all_seats, zone_key) ==
    Cardinality(TeamDigitSeats(employee, all_seats, zone_key))

RECURSIVE SumSuffix(_, _)
SumSuffix(all_seats, idx) ==
    IF idx = {} THEN 0
    ELSE LET i == CHOOSE x \in idx : TRUE
         IN  Suffix(all_seats[i]) + SumSuffix(all_seats, idx \ {i})

team_suffix_totals_by_zone(employee, all_seats, zone_key) ==
    SumSuffix(all_seats, TeamDigitSeats(employee, all_seats, zone_key))

\* team_max_suffix_by_zone.get(zone_key, 0)
team_max_suffix_by_zone(employee, all_seats, zone_key) ==
    Max({0} \cup { Suffix(all_seats[i]) : i \in TeamDigitSeats(employee, all_seats, zone_key) })

NoSlot == 0 - 1

preferred_department_slot(employee, all_seats, zone_key) ==
    LET current_depts == zone_departments(all_seats, zone_key)
    IN  IF current_depts = {} THEN 0
        ELSE IF employee.department \in current_depts
        THEN (IF DeptMinSuffix(all_seats, zone_key, employee.department) <= 50 THEN 0 ELSE 1)
        ELSE IF Cardinality(current_depts) >= 2 THEN NoSlot
        ELSE LET existing_dept == CHOOSE d \in current_depts : TRUE
             IN  IF DeptMinSuffix(all_seats, zone_key, existing_dept) <= 50 THEN 1 ELSE 0

\* The employee's-department occupied seats of zone_key: the seats counted in
\* dept_team_counts_by_zone[zone_key].
DeptSeatsInZone(employee, all_seats, zone_key) ==
    { i \in OccupiedIdx(all_seats) :
        /\ ZoneKey(all_seats[i]) = zone_key
        /\ MatchesDepartment(employee, all_seats[i]) }

\* [team for team, _count in dept_team_counts.most_common() if team]: the teams by
\* descending count, equal counts in the order the teams were first counted.
\* A team is its (count, first position) pair here; the result is the teams' set
\* and the position of a team in the list.
OrderedTeams(employee, all_seats, zone_key) ==
    { OccupiedTeam(all_seats[i]) : i \in DeptSeatsInZone(employee, all_seats, zone_key) }

TeamCountIn(employee, all_seats, zone_key, team) ==
    Cardinality({ i \in DeptSeatsInZone(employee, all_seats, zone_key) :
                    OccupiedTeam(all_seats[i]) = team })

TeamFirstSeen(employee, all_seats, zone_key, team) ==
    Min({ i \in DeptSeatsInZone(employee, all_seats, zone_key) :
            OccupiedTeam(all_seats[i]) = team })

\* ordered_teams.index(team)
OrderedTeamsIndex(employee, all_seats, zone_key, team) ==
    Cardinality({ t \in OrderedTeams(employee, all_seats, zone_key) :
        \/ TeamCountIn(employee, all_seats, zone_key, t)
             > TeamCountIn(employee, all_seats, zone_key, team)
        \/ /\ TeamCountIn(employee, all_seats, zone_key, t)
                = TeamCountIn(employee, all_seats, zone_key, team)
           /\ TeamFirstSeen(employee, all_seats, zone_key, t)
                < TeamFirstSeen(employee, all_seats, zone_key, team) })

NoSection == <<0, 0>>

preferred_team_section(employee, all_seats, seat) ==
    LET z == ZoneKey(seat)
        dept_slot == preferred_department_slot(employee, all_seats, z)
        section_ranges == IF dept_slot = 0 THEN << <<1, 25>>, <<26, 50>> >>
                          ELSE << <<51, 75>>, <<76, 100>> >>
        ordered_teams == OrderedTeams(employee, all_seats, z)
        team_slot == IF employee.team \in ordered_teams
                     THEN OrderedTeamsIndex(employee, all_seats, z, employee.team) % 2
                     ELSE Cardinality(ordered_teams) % 2
    IN  IF dept_slot = NoSlot THEN NoSection ELSE section_ranges[team_slot + 1]

-----------------------------------------------------------------------------
(* allocator.py: scores.  A score is the code's float times ScoreScale. *)

MaxZoneSeats ==
    Max({ Cardinality({ i \in SeatIds : SeatLocation[i] = SeatLocation[j] }) : j \in SeatIds })

RECURSIVE Gcd(_, _)
Gcd(a, b) == IF b = 0 THEN a ELSE Gcd(b, a % b)

RECURSIVE LcmUpTo(_)
LcmUpTo(n) == IF n <= 1 THEN 1 ELSE (LcmUpTo(n - 1) * n) \div Gcd(LcmUpTo(n - 1), n)

\* 0.001 and 0.25 / team_count are whole multiples of 1 / ScoreScale for every
\* team_count a zone can hold.
ScoreScale == 4000 * LcmUpTo(MaxZoneSeats)

\* A base score without the bonus for the seat next to the team's highest seat.
base_score_without_adjacency(employee, all_seats, team_anchor, dept_anchor, seat) ==
    LET zone_key    == ZoneKey(seat)
        seat_num    == Suffix(seat)
        section     == preferred_team_section(employee, all_seats, seat)
        dept_slot   == preferred_department_slot(employee, all_seats, zone_key)
        dept_half   == IF dept_slot = 0 THEN <<1, 50>> ELSE <<51, 100>>
        team_count  == team_suffix_counts_by_zone(employee, all_seats, zone_key)
        zone_score  ==
              (IF team_anchor # NoZone /\ zone_key = team_anchor THEN 10000 ELSE 0)
            + team_zone_counts(employee, all_seats, zone_key) * 1200
            + (IF seat.team_cluster = employee.team THEN 500 ELSE 0)
            + (IF dept_anchor # NoZone /\ zone_key = dept_anchor THEN 8500 ELSE 0)
            + dept_zone_counts(employee, all_seats, zone_key) * 600
            + (IF seat.department = employee.department THEN 80 ELSE 0)
            + zone_load(all_seats, zone_key) * 450
            + Cardinality(zone_departments(all_seats, zone_key)) * 700
            - (IF /\ team_anchor # NoZone
                  /\ <<zone_key[1], zone_key[2]>> # <<team_anchor[1], team_anchor[2]>>
               THEN 180 ELSE 0)
            - (IF /\ dept_anchor # NoZone
                  /\ <<zone_key[1], zone_key[2]>> # <<dept_anchor[1], dept_anchor[2]>>
               THEN 220 ELSE 0)
            - (IF /\ dept_anchor # NoZone
                  /\ zone_key # dept_anchor
                  /\ available_same_dept_by_zone(employee, all_seats, dept_anchor) > 0
               THEN 3500 ELSE 0)
        seat_score  ==
            IF ~IsDigit(seat_num) THEN 0
            ELSE  (IF section # NoSection /\ section[1] <= seat_num /\ seat_num <= section[2]
                   THEN 300 * ScoreScale ELSE 0)
                + (IF dept_slot # NoSlot /\ dept_half[1] <= seat_num /\ seat_num <= dept_half[2]
                   THEN 700 * ScoreScale ELSE 0)
                - (IF team_count > 0
                   THEN Abs(seat_num * team_count
                            - team_suffix_totals_by_zone(employee, all_seats, zone_key))
                        * (ScoreScale \div (4 * team_count))
                   ELSE 0)
                + (IF /\ team_count > 0
                      /\ team_max_suffix_by_zone(employee, all_seats, zone_key) + 1 = seat_num
                   THEN 0 ELSE 0)
                - seat_num * (ScoreScale \div 1000)
    IN  zone_score * ScoreScale + seat_score

base_score(employee, all_seats, team_anchor, dept_anchor, seat) ==
    LET zone_key    == ZoneKey(seat)
        seat_num    == Suffix(seat)
        section     == preferred_team_section(employee, all_seats, seat)
        dept_slot   == preferred_department_slot(employee, all_seats, zone_key)
        dept_half   == IF dept_slot = 0 THEN <<1, 50>> ELSE <<51, 100>>
        team_count  == team_suffix_counts_by_zone(employee, all_seats, zone_key)
        zone_score  ==
              (IF team_anchor # NoZone /\ zone_key = team_anchor THEN 10000 ELSE 0)
            + team_zone_counts(employee, all_seats, zone_key) * 1200
            + (IF seat.team_cluster = employee.team THEN 500 ELSE 0)
            + (IF dept_anchor # NoZone /\ zone_key = dept_anchor THEN 8500 ELSE 0)
            + dept_zone_counts(employee, all_seats, zone_key) * 600
            + (IF seat.department = employee.department THEN 80 ELSE 0)
            + zone_load(all_seats, zone_key) * 450
            + Cardinality(zone_departments(all_seats, zone_key)) * 700
            - (IF /\ team_anchor # NoZone
                  /\ <<zone_key[1], zone_key[2]>> # <<team_anchor[1], team_anchor[2]>>
               THEN 180 ELSE 0)
            - (IF /\ dept_anchor # NoZone
                  /\ <<zone_key[1], zone_key[2]>> # <<dept_anchor[1], dept_anchor[2]>>
               THEN 220 ELSE 0)
            - (IF /\ dept_anchor # NoZone
                  /\ zone_key # dept_anchor
                  /\ available_same_dept_by_zone(employee, all_seats, dept_anchor) > 0
               THEN 3500 ELSE 0)
        seat_score  ==
            IF ~IsDigit(seat_num) THEN 0
            ELSE  (IF section # NoSection /\ section[1] <= seat_num /\ seat_num <= section[2]
                   THEN 300 * ScoreScale ELSE 0)
                + (IF dept_slot # NoSlot /\ dept_half[1] <= seat_num /\ seat_num <= dept_half[2]
                   THEN 700 * ScoreScale ELSE 0)
                - (IF team_count > 0
                   THEN Abs(seat_num * team_count
                            - team_suffix_totals_by_zone(employee, all_seats, zone_key))
                        * (ScoreScale \div (4 * team_count))
                   ELSE 0)
                + (IF /\ team_count > 0
                      /\ team_max_suffix_by_zone(employee, all_seats, zone_key) + 1 = seat_num
                   THEN 2600 * ScoreScale ELSE 0)
                - seat_num * (ScoreScale \div 1000)
    IN  zone_score * ScoreScale + seat_score

\* A lookahead that does not take the candidate itself off the remaining seats.
lookahead_score_counting_candidate(employee, all_seats, seat) ==
    LET zone_key == ZoneKey(seat)
    IN  ( available_same_team_by_zone(employee, all_seats, zone_key) * 100
        + available_same_dept_by_zone(employee, all_seats, zone_key) * 65 ) * ScoreScale

lookahead_score(employee, all_seats, seat) ==
    LET zone_key == ZoneKey(seat)
        remaining_same_team ==
            Max({0, available_same_team_by_zone(employee, all_seats, zone_key) - 1})
        remaining_same_dept ==
            Max({0, available_same_dept_by_zone(employee, all_seats, zone_key) - 1})
    IN  (remaining_same_team * 100 + remaining_same_dept * 65) * ScoreScale

-----------------------------------------------------------------------------
(* allocator.py: select_seat *)

\* enforce_zone_department_cap with the cap off by one: a zone may take a
\* third department.
enforce_zone_department_cap_three(employee, all_seats, seat_list) ==
    Filter(seat_list,
           LAMBDA seat :
               Cardinality(zone_departments(all_seats, ZoneKey(seat))
                           \cup {employee.department}) <= 3)

enforce_zone_department_cap(employee, all_seats, seat_list) ==
    Filter(seat_list,
           LAMBDA seat :
               Cardinality(zone_departments(all_seats, ZoneKey(seat))
                           \cup {employee.department}) <= 2)

\* dept_zone_candidates with the comparison inverted: the candidates outside
\* the department anchor zone.
dept_zone_candidates_outside(candidate_seats, dept_anchor) ==
    IF dept_anchor = NoZone THEN <<>>
    ELSE Filter(candidate_seats, LAMBDA seat : ZoneKey(seat) # dept_anchor)

dept_zone_candidates(candidate_seats, dept_anchor) ==
    IF dept_anchor = NoZone THEN <<>>
    ELSE Filter(candidate_seats, LAMBDA seat : ZoneKey(seat) = dept_anchor)

\* dept_locked with the lock never taken.
dept_locked_never(candidate_seats, dept_anchor) == FALSE

dept_locked(candidate_seats, dept_anchor) ==
    dept_zone_candidates(candidate_seats, dept_anchor) # <<>>

\* candidate_seats after the lock and domain reduction pass 1, before the fallback.
LockedCapValid(employee, candidate_seats, all_seats, dept_anchor) ==
    enforce_zone_department_cap(employee, all_seats,
        IF dept_locked(candidate_seats, dept_anchor)
        THEN dept_zone_candidates(candidate_seats, dept_anchor)
        ELSE candidate_seats)

lock_relaxed(employee, candidate_seats, all_seats, dept_anchor) ==
    /\ dept_locked(candidate_seats, dept_anchor)
    /\ LockedCapValid(employee, candidate_seats, all_seats, dept_anchor) = <<>>

\* CapValidDomain whose fallback re-opens the original domain without
\* filtering it by the cap again.
CapValidDomain_uncapped_fallback(employee, candidate_seats, all_seats, dept_anchor) ==
    IF lock_relaxed(employee, candidate_seats, all_seats, dept_anchor)
    THEN candidate_seats
    ELSE LockedCapValid(employee, candidate_seats, all_seats, dept_anchor)

\* CapValidDomain without the controlled fallback: a lock that the cap empties
\* stays empty.
CapValidDomain_no_fallback(employee, candidate_seats, all_seats, dept_anchor) ==
    LockedCapValid(employee, candidate_seats, all_seats, dept_anchor)

\* candidate_seats after the controlled fallback.
CapValidDomain(employee, candidate_seats, all_seats, dept_anchor) ==
    IF lock_relaxed(employee, candidate_seats, all_seats, dept_anchor)
    THEN enforce_zone_department_cap(employee, all_seats, candidate_seats)
    ELSE LockedCapValid(employee, candidate_seats, all_seats, dept_anchor)

\* min(...) over (building, floor) pairs
MinFloor(floors) ==
    CHOOSE f \in floors :
        \A g \in floors : f[1] < g[1] \/ (f[1] = g[1] /\ f[2] <= g[2])

\* preferred_floor that takes the team anchor's floor before the locked
\* department anchor's.
preferred_floor_team_first(all_seats, team_anchor, dept_anchor, locked, domain) ==
    IF team_anchor # NoZone THEN <<team_anchor[1], team_anchor[2]>>
    ELSE IF dept_anchor # NoZone THEN <<dept_anchor[1], dept_anchor[2]>>
    ELSE IF OccupiedIdx(all_seats) # {} THEN MostLoadedFloor(all_seats)
    ELSE MinFloor({ FloorKey(seat) : seat \in Range(domain) })

\* domain is the candidate list after the fallback, which is not empty.
preferred_floor(all_seats, team_anchor, dept_anchor, locked, domain) ==
    IF locked /\ dept_anchor # NoZone THEN <<dept_anchor[1], dept_anchor[2]>>
    ELSE IF team_anchor # NoZone THEN <<team_anchor[1], team_anchor[2]>>
    ELSE IF dept_anchor # NoZone THEN <<dept_anchor[1], dept_anchor[2]>>
    ELSE IF OccupiedIdx(all_seats) # {} THEN MostLoadedFloor(all_seats)
    ELSE MinFloor({ FloorKey(seat) : seat \in Range(domain) })

\* FloorReduction that narrows to the preferred building only.
FloorReduction_building_only(domain, preferred) ==
    LET same_building == Filter(domain, LAMBDA seat : seat.building = preferred[1])
    IN  [ floor_preferred    |-> FALSE,
          building_preferred |-> same_building # <<>>,
          candidate_seats    |-> IF same_building # <<>> THEN same_building ELSE domain ]

\* Domain reduction pass 2 over domain, with its flags.
FloorReduction(domain, preferred) ==
    LET same_floor    == Filter(domain, LAMBDA seat : FloorKey(seat) = preferred)
        on_floor      == IF same_floor # <<>> THEN same_floor ELSE domain
        same_building == Filter(on_floor, LAMBDA seat : seat.building = preferred[1])
    IN  [ floor_preferred    |-> same_floor # <<>>,
          building_preferred |-> same_building # <<>>,
          candidate_seats    |-> IF same_building # <<>> THEN same_building ELSE on_floor ]

\* An anchor-preservation step that takes the lowest-ranked member of the
\* department anchor zone.
Selected_last_anchored(employee, ranked, all_seats, dept_anchor) ==
    LET anchored == IF dept_anchor = NoZone THEN <<>>
                    ELSE Filter(ranked, LAMBDA s : ZoneKey(s) = dept_anchor)
    IN  IF /\ anchored # <<>>
           /\ available_same_dept_by_zone(employee, all_seats, dept_anchor) > 0
        THEN anchored[Len(anchored)]
        ELSE ranked[1]

\* The anchor-preservation step over the re-ranked beam, which is not empty.
Selected(employee, ranked, all_seats, dept_anchor) ==
    LET anchored == IF dept_anchor = NoZone THEN <<>>
                    ELSE Filter(ranked, LAMBDA s : ZoneKey(s) = dept_anchor)
    IN  IF /\ anchored # <<>>
           /\ available_same_dept_by_zone(employee, all_seats, dept_anchor) > 0
        THEN anchored[1]
        ELSE ranked[1]

Assignment(employee, selected, reasoning) ==
    [ kind        |-> "assignment",
      employee_id |-> employee.employee_id,
      seat_id     |-> selected.seat_id,
      building    |-> selected.building,
      floor       |-> selected.floor,
      zone        |-> selected.zone,
      reasoning   |-> reasoning ]

\* The stages of one select_seat call.  Each stage adds its results to the
\* record d of the stages before it.

\* team_anchor, dept_anchor
AnchorStage(employee, all_seats) ==
    [ team_anchor |-> TeamAnchor(employee, all_seats),
      dept_anchor |-> DeptAnchor(employee, all_seats) ]

\* The lock, domain reduction pass 1 and the controlled fallback.
LockStage(employee, candidate_seats, all_seats, d) ==
    d @@ [ dept_locked  |-> dept_locked(candidate_seats, d.dept_anchor),
           lock_relaxed |-> lock_relaxed(employee, candidate_seats, all_seats, d.dept_anchor),
           domain       |-> CapValidDomain(employee, candidate_seats, all_seats,
                                           d.dept_anchor) ]

PreferredFloorStage(all_seats, d) ==
    d @@ [ preferred_floor |->
             IF d.domain = <<>> THEN <<0, 0>>
             ELSE preferred_floor(all_seats, d.team_anchor, d.dept_anchor,
                                  d.dept_locked, d.domain) ]

\* Domain reduction pass 2: floor_preferred, building_preferred, candidate_seats.
FloorStage(d) == d @@ FloorReduction(d.domain, d.preferred_floor)

\* base_scores, by position in candidate_seats
ScoreStage(employee, all_seats, d) ==
    d @@ [ base_scores |->
             Tabulate(Len(d.candidate_seats),
                      LAMBDA i : base_score(employee, all_seats, d.team_anchor,
                                            d.dept_anchor, d.candidate_seats[i])) ]

\* frontier[: self.beam_width], as positions in candidate_seats
BeamStage(width, d) ==
    d @@ [ beam |->
             Take(SortedDescending(Tabulate(Len(d.candidate_seats), LAMBDA i : i),
                                   d.base_scores),
                  width) ]

\* The seats at the given positions of seat_list.
SeatsAtPositions(seat_list, positions) ==
    Tabulate(Len(positions), LAMBDA k : seat_list[positions[k]])

RankStage(employee, all_seats, d) ==
    d @@ [ ranked_with_lookahead |->
             SeatsAtPositions(d.candidate_seats,
                 SortedDescending(d.beam,
                     Tabulate(Len(d.beam),
                         LAMBDA k : d.base_scores[d.beam[k]]
                                    + lookahead_score(employee, all_seats,
                                                      d.candidate_seats[d.beam[k]]))) ) ]

Decision(employee, candidate_seats, all_seats, width) ==
    RankStage(employee, all_seats,
        BeamStage(width,
            ScoreStage(employee, all_seats,
                FloorStage(
                    PreferredFloorStage(all_seats,
                        LockStage(employee, candidate_seats, all_seats,
                            AnchorStage(employee, all_seats)))))))

\* The assignment for the selected seat, with the facts its reasoning names.
Reasoned(employee, d, selected) ==
    Assignment(employee, selected,
        [ selected                       |-> selected.seat_id,
          team_anchor                    |-> d.team_anchor,
          dept_anchor                    |-> d.dept_anchor,
          dept_zone_lock                 |-> d.dept_locked,
          dept_zone_lock_relaxed         |-> d.lock_relaxed,
          domain_reduction_floor_pref    |-> d.floor_preferred,
          domain_reduction_building_pref |-> d.building_preferred ])

\* select_seat from the decision d on.
Outcome(employee, all_seats, d) ==
    IF d.domain = <<>> THEN NoAssignment
    ELSE IF d.beam = <<>> THEN NoAssignment
    ELSE Reasoned(employee, d,
                  Selected(employee, d.ranked_with_lookahead, all_seats, d.dept_anchor))

select_seat(employee, candidate_seats, all_seats, width) ==
    IF candidate_seats = <<>> THEN NoAssignment
    ELSE Outcome(employee, all_seats,
                 Decision(employee, candidate_seats, all_seats, width))

-----------------------------------------------------------------------------
(* seat_inventory.py *)

\* available_seats without the status filter: every seat of the inventory.
available_seats_unfiltered(inventory) == inventory

\* available_seats that stops at the first available seat.
available_seats_first(inventory) == Take(Filter(inventory, IsAvailable), 1)

\* [seat for seat in self._seats.values() if seat.status == "available"]
available_seats(inventory) == Filter(inventory, IsAvailable)

\* list(self._seats.values())
all_seats(inventory) == inventory

\* mark_occupied that does not record the occupant's team.
mark_occupied_without_team(inventory, seat_id, employee_id, department, team) ==
    [ inventory EXCEPT ![seat_id] =
        [ @ EXCEPT !.status              = "occupied",
                   !.occupied_by         = employee_id,
                   !.occupied_department = department ] ]

\* mark_occupied that moves the employee: a seat the employee already holds is
\* made available again.
mark_occupied_releasing(inventory, seat_id, employee_id, department, team) ==
    [ i \in DOMAIN inventory |->
        IF i = seat_id
        THEN [ inventory[i] EXCEPT !.status              = "occupied",
                                   !.occupied_by         = employee_id,
                                   !.occupied_department = department,
                                   !.occupied_team       = team ]
        ELSE IF inventory[i].occupied_by = employee_id
        THEN [ inventory[i] EXCEPT !.status              = "available",
                                   !.occupied_by         = None,
                                   !.occupied_department = None,
                                   !.occupied_team       = None ]
        ELSE inventory[i] ]

mark_occupied(inventory, seat_id, employee_id, department, team) ==
    [ inventory EXCEPT ![seat_id] =
        [ @ EXCEPT !.status              = "occupied",
                   !.occupied_by         = employee_id,
                   !.occupied_department = department,
                   !.occupied_team       = team ] ]

\* occupied_zone_counts: the zones holding an occupied seat, each with its
\* count, in the order in which the inventory first shows them.
occupied_zone_counts(inventory) ==
    LET first == { i \in OccupiedIdx(inventory) :
                     \A j \in OccupiedIdx(inventory) :
                         ZoneKey(inventory[j]) = ZoneKey(inventory[i]) => i <= j }
    IN  [ k \in DOMAIN SubSeqAt(inventory, first) |->
            [ zone      |-> ZoneKey(SubSeqAt(inventory, first)[k]),
              occupants |-> zone_load(inventory, ZoneKey(SubSeqAt(inventory, first)[k])) ] ]

-----------------------------------------------------------------------------
(* notifications, energy_optimizer.py, iot_client.py *)

\* EmailNotifier.send_seat_assignment: the message names the employee, the seat
\* and the seat's building, floor and zone.
email_message(employee, assignment) ==
    [ to       |-> employee.employee_id,
      seat_id  |-> assignment.seat_id,
      location |-> <<assignment.building, assignment.floor, assignment.zone>> ]

\* MessageNotifier.send_seat_assignment: the message names the employee, the
\* seat and the seat's floor and zone.
sms_message(employee, assignment) ==
    [ to       |-> employee.employee_id,
      seat_id  |-> assignment.seat_id,
      location |-> <<assignment.floor, assignment.zone>> ]

idle_zone_threshold == 0

\* optimize's default known_zones: buildings 1-2, floors 1-2, zones A, B, C.
known_zones == (1..2) \X (1..2) \X {"A", "B", "C"}

\* optimize: POWER_ON for the zones with more occupants than the threshold, in
\* the order of zone_counts, then POWER_OFF for the known zones without an
\* occupant.  The code takes the latter from a set difference, in an order
\* the language does not fix: the entry keeps them as a set.
optimize(zone_counts) ==
    [ power_on  |-> [ k \in DOMAIN SubSeqAt(zone_counts,
                                            { i \in DOMAIN zone_counts :
                                                zone_counts[i].occupants > idle_zone_threshold })
                        |-> SubSeqAt(zone_counts,
                                     { i \in DOMAIN zone_counts :
                                         zone_counts[i].occupants > idle_zone_threshold })[k].zone ],
      power_off |-> known_zones \ { zone_counts[i].zone : i \in DOMAIN zone_counts } ]

-----------------------------------------------------------------------------
(* The inventories a run starts from *)

\* seat_id -> the seat's template (department, team_cluster)
SeatTemplate ==
    << <<"Dept-A", "Team-A1">>, <<"Dept-A", "Team-A2">>, <<"Dept-B", "Team-B1">>,
       <<"Dept-C", "Team-C1">>,
       <<"Dept-A", "Team-A1">>,
       <<"Dept-B", "Team-B1">>, <<"Dept-A", "Team-A2">>,
       <<"Dept-C", "Team-C1">> >>

AllAvailable == [ i \in SeatIds |-> Seat(i, SeatTemplate[i][1], SeatTemplate[i][2]) ]

\* Who holds a seat that is occupied before the first event: an employee of the
\* directory, recorded with department and team, or an occupant recorded by id
\* alone (Seat(..., status="occupied", occupied_by=...)), whose department and
\* team are then read from the seat's template.
TemplateOccupant == "E0"

Occupants == EmployeeIds \cup {TemplateOccupant}

Occupy(seat, occupant) ==
    IF occupant = TemplateOccupant
    THEN [ seat EXCEPT !.status = "occupied", !.occupied_by = occupant ]
    ELSE [ seat EXCEPT !.status              = "occupied",
                       !.occupied_by         = occupant,
                       !.occupied_department = EmployeeTable[occupant].department,
                       !.occupied_team       = EmployeeTable[occupant].team ]

\* The inventories in which some seats of by_id_only \cup by_employee are
\* occupied: a seat of by_id_only by any occupant, a seat of by_employee by an
\* employee of the directory.
Inventories(by_id_only, by_employee) ==
    UNION { { [ i \in SeatIds |-> IF i \in O THEN Occupy(AllAvailable[i], who[i])
                                             ELSE AllAvailable[i] ] :
                who \in { w \in [O -> Occupants] :
                            \A i \in O : w[i] = TemplateOccupant => i \in by_id_only } } :
            O \in SUBSET (by_id_only \cup by_employee) }

ZoneKeys == { SeatLocation[i] : i \in SeatIds }

\* Every zone's occupied seats represent at most 2 departments.
CapRespected(inventory) ==
    \A z \in ZoneKeys : Cardinality(zone_departments(inventory, z)) <= 2

DefaultBeamWidth == 40

BeamWidths == {1, DefaultBeamWidth}

-----------------------------------------------------------------------------
(* process_orchestrator.py: process_event, one call per step *)

\* The number of assignments a run is followed for.
MaxAssignments == 4

\* Before the first event seats 1 and 2 may be occupied.
Init ==
    /\ seats \in { inv \in Inventories({1, 2}, {}) : CapRespected(inv) }
    /\ beam_width = DefaultBeamWidth
    /\ last_employee = NoEmployee
    /\ last_candidates = <<>>
    /\ last_result = NoAssignment
    /\ assignments = <<>>
    /\ sent_emails = <<>>
    /\ sent_sms = <<>>
    /\ command_history = <<>>
    /\ events = <<>>
    /\ pending_at_call = <<>>
    /\ ordered_batch = <<>>
    /\ run_once_result = NotCalled
    /\ in_flight = NoneInFlight

SeatIdsOf(seat_list) == [ i \in DOMAIN seat_list |-> seat_list[i].seat_id ]

\* A process_event that takes the occupancy counts before it marks the seat.
Commit_counts_before_marking(employee, candidates, assignment) ==
    /\ Len(assignments) < MaxAssignments \/ assignment = NoAssignment
    /\ last_employee' = employee
    /\ last_candidates' = SeatIdsOf(candidates)
    /\ last_result' = assignment
    /\ IF assignment = NoAssignment
       THEN UNCHANGED <<seats, assignments, notified>>
       ELSE /\ seats' = mark_occupied(seats, assignment.seat_id, employee.employee_id,
                                      employee.department, employee.team)
            /\ sent_emails' = Append(sent_emails, email_message(employee, assignment))
            /\ sent_sms' = Append(sent_sms, sms_message(employee, assignment))
            /\ command_history' = Append(command_history,
                                         optimize(occupied_zone_counts(seats)))
            /\ assignments' = Append(assignments, assignment)

\* process_event from the allocator's answer on.
Commit(employee, candidates, assignment) ==
    /\ Len(assignments) < MaxAssignments \/ assignment = NoAssignment
    /\ last_employee' = employee
    /\ last_candidates' = SeatIdsOf(candidates)
    /\ last_result' = assignment
    /\ IF assignment = NoAssignment
       THEN UNCHANGED <<seats, assignments, notified>>
       ELSE /\ seats' = mark_occupied(seats, assignment.seat_id, employee.employee_id,
                                      employee.department, employee.team)
            /\ sent_emails' = Append(sent_emails, email_message(employee, assignment))
            /\ sent_sms' = Append(sent_sms, sms_message(employee, assignment))
            /\ command_history' = Append(command_history,
                                         optimize(occupied_zone_counts(seats')))
            /\ assignments' = Append(assignments, assignment)

\* process_event from the directory's answer on.
Allocate(employee, candidates) ==
    IF employee = NoEmployee
    THEN /\ last_employee' = NoEmployee
         /\ last_candidates' = <<>>
         /\ last_result' = NoAssignment
         /\ UNCHANGED <<seats, assignments, notified>>
    ELSE Commit(employee, candidates,
                select_seat(employee, candidates, all_seats(seats), beam_width))

process_event(employee_id) ==
    /\ beam_width' = beam_width
    /\ UNCHANGED <<run_vars, in_flight>>
    /\ Allocate(get_employee(employee_id), available_seats(seats))

Next == \E employee_id \in EmployeeIds \cup {UnknownEmployeeId} : process_event(employee_id)

Spec == Init /\ [][Next]_vars

-----------------------------------------------------------------------------
(* select_seat as a function of its arguments: one call per step *)

MaxCandidates == 3

\* The candidate lists of a call: available seats, in the inventory's order.
CandidateLists(inventory) ==
    { SeatIdsOf(SubSeqAt(inventory, S)) :
        S \in { T \in SUBSET { i \in SeatIds : IsAvailable(inventory[i]) } :
                  Cardinality(T) <= MaxCandidates } }

\* A call is made on an inventory in which seats 1, 2, 3 and 6 may be occupied.
SelInit ==
    /\ seats \in Inventories({1, 6}, {2, 3})
    /\ beam_width \in BeamWidths
    /\ last_employee \in { EmployeeTable[e] : e \in EmployeeIds }
    /\ last_candidates \in CandidateLists(seats)
    /\ last_result = Pending
    /\ assignments = <<>>
    /\ sent_emails = <<>>
    /\ sent_sms = <<>>
    /\ command_history = <<>>
    /\ events = <<>>
    /\ pending_at_call = <<>>
    /\ ordered_batch = <<>>
    /\ run_once_result = NotCalled
    /\ in_flight = NoneInFlight

\* The seats of the inventory a list of seat_ids names.
SeatsAt(inventory, seat_ids) == [ i \in DOMAIN seat_ids |-> inventory[seat_ids[i]] ]

\* A select_seat that marks the seat it chooses.
SelectSeatCall_marking ==
    /\ last_result = Pending
    /\ LET result == select_seat(last_employee, SeatsAt(seats, last_candidates),
                                 all_seats(seats), beam_width)
       IN  /\ last_result' = result
           /\ seats' = IF result = NoAssignment THEN seats
                       ELSE mark_occupied(seats, result.seat_id, last_employee.employee_id,
                                          last_employee.department, last_employee.team)
    /\ UNCHANGED <<beam_width, last_employee, last_candidates, assignments,
                   notified, run_vars, in_flight>>

SelectSeatCall ==
    /\ last_result = Pending
    /\ last_result' = select_seat(last_employee, SeatsAt(seats, last_candidates),
                                  all_seats(seats), beam_width)
    /\ UNCHANGED <<seats, beam_width, last_employee, last_candidates, assignments,
                   notified, run_vars, in_flight>>

SelNext == SelectSeatCall

SelSpec == SelInit /\ [][SelNext]_vars

\* The (department, team_cluster) a seat of the first zone may be built with.
Designations ==
    { <<"Dept-A", "Team-A1">>, <<"Dept-A", "Team-A2">>, <<"Dept-B", "Team-B1">> }

\* The seats of the first zone.
FirstZoneSeats == { i \in SeatIds : SeatLocation[i] = SeatLocation[1] }

\* The inventories whose first zone is designated in any way, with its last
\* seat available or occupied.
DesignatedInventories ==
    { [ i \in SeatIds |->
          IF i \notin FirstZoneSeats THEN AllAvailable[i]
          ELSE IF i = Max(FirstZoneSeats) /\ occupant # None
               THEN Occupy(Seat(i, designation[i][1], designation[i][2]), occupant)
               ELSE Seat(i, designation[i][1], designation[i][2]) ] :
        designation \in [FirstZoneSeats -> Designations],
        occupant \in {None, "E1", "E3"} }

\* A call is made on an inventory whose first zone is designated in any way.
LayoutInit ==
    /\ seats \in DesignatedInventories
    /\ beam_width \in BeamWidths
    /\ last_employee \in { EmployeeTable[e] : e \in {"E1", "E3"} }
    /\ last_candidates \in CandidateLists(seats)
    /\ last_result = Pending
    /\ assignments = <<>>
    /\ sent_emails = <<>>
    /\ sent_sms = <<>>
    /\ command_history = <<>>
    /\ events = <<>>
    /\ pending_at_call = <<>>
    /\ ordered_batch = <<>>
    /\ run_once_result = NotCalled
    /\ in_flight = NoneInFlight

LayoutSpec == LayoutInit /\ [][SelNext]_vars

-----------------------------------------------------------------------------
(* access_stream.py and process_orchestrator.py: publish and run_once *)

\* The number of events the stream holds at most.
MaxPending == 3

\* datetime.utcnow() reads the wall clock, which may repeat a value or step back.
Timestamps == 1..2

AccessEvent(employee_id, entered_at) ==
    [ employee_id |-> employee_id, entered_at |-> entered_at ]

\* The strings the sort keys are made of, in the order str compares them.
StringsAscending ==
    << "Dept-A", "Dept-B", "Dept-C", "E1", "E2", "E3", "E4", "E9",
       "Team-A1", "Team-A2", "Team-B1", "Team-C1", "~" >>

StringRank(str) == CHOOSE k \in DOMAIN StringsAscending : StringsAscending[k] = str

\* _order_batch's key: (department, team, entered_at.isoformat(), employee_id),
\* or ("~", "~", ...) for an employee the directory does not hold.  Strings are
\* given by their rank; ISO timestamps order as the instants do.
order_key(event) ==
    IF get_employee(event.employee_id) = NoEmployee
    THEN << StringRank("~"), StringRank("~"), event.entered_at,
            StringRank(event.employee_id) >>
    ELSE << StringRank(get_employee(event.employee_id).department),
            StringRank(get_employee(event.employee_id).team),
            event.entered_at,
            StringRank(event.employee_id) >>

\* a < b for tuples of the same length
TupleLess(a, b) ==
    \E k \in DOMAIN a : a[k] < b[k] /\ \A j \in 1..(k - 1) : a[j] = b[j]

\* sorted(batch, key=order_key): ascending, equal keys in their order in batch.
_order_batch(batch) ==
    [ p \in DOMAIN batch |->
        batch[CHOOSE i \in DOMAIN batch :
                Cardinality({ j \in DOMAIN batch :
                                \/ TupleLess(order_key(batch[j]), order_key(batch[i]))
                                \/ /\ order_key(batch[j]) = order_key(batch[i])
                                   /\ j < i }) = p - 1] ]

\* An islice that reads the pending events without taking them from the stream.
islice_peeking(pending, n) == [ batch |-> Take(pending, n), rest |-> pending ]

\* list(islice(stream, n)) on the generator of consume(): up to n times, while
\* _events is not empty, consume yields _events.pop(0).  batch is what was
\* yielded, rest what _events still holds.
RECURSIVE islice(_, _)
islice(pending, n) ==
    IF n = 0 \/ pending = <<>>
    THEN [ batch |-> <<>>, rest |-> pending ]
    ELSE [ batch |-> <<Head(pending)>> \o islice(Tail(pending), n - 1).batch,
           rest  |-> islice(Tail(pending), n - 1).rest ]

\* The size of a batch of run_once.
BatchSize == 2

\* The attributes a SeatAllocator has.
SeatAllocatorAttributes == {"beam_width", "select_seat"}

ReturnedList(assignment_list) == [kind |-> "returned", assignments |-> assignment_list]

Raised(exception) == [kind |-> "raised", exception |-> exception]

RunInit ==
    /\ seats = AllAvailable
    /\ beam_width = DefaultBeamWidth
    /\ last_employee = NoEmployee
    /\ last_candidates = <<>>
    /\ last_result = NoAssignment
    /\ assignments = <<>>
    /\ sent_emails = <<>>
    /\ sent_sms = <<>>
    /\ command_history = <<>>
    /\ events = <<>>
    /\ pending_at_call = <<>>
    /\ ordered_batch = <<>>
    /\ run_once_result = NotCalled
    /\ in_flight = NoneInFlight

publish(employee_id, now) ==
    /\ Len(events) < MaxPending
    /\ events' = Append(events, AccessEvent(employee_id, now))
    /\ UNCHANGED <<seats, beam_width, last_employee, last_candidates, last_result,
                   assignments, notified, pending_at_call, ordered_batch, run_once_result,
                   in_flight>>

\* One call of run_once.  With no pending event the first batch is empty and
\* the call returns its empty list.  Otherwise the call takes the first batch
\* from the stream, orders it, and looks up prepare_batch_baseline on the
\* allocator, which has no such attribute: the AttributeError leaves run_once,
\* which has no handler, before the first process_event.
run_once ==
    /\ pending_at_call' = events
    /\ IF islice(events, BatchSize).batch = <<>>
       THEN /\ events' = events
            /\ ordered_batch' = <<>>
            /\ run_once_result' = ReturnedList(<<>>)
       ELSE /\ "prepare_batch_baseline" \notin SeatAllocatorAttributes
            /\ events' = islice(events, BatchSize).rest
            /\ ordered_batch' = _order_batch(islice(events, BatchSize).batch)
            /\ run_once_result' = Raised("AttributeError")
    /\ UNCHANGED <<seats, beam_width, last_employee, last_candidates, last_result,
                   assignments, notified, in_flight>>

\* The employees whose arrivals are published.
Arrivals == {"E1", "E2", "E3", UnknownEmployeeId}

RunNext ==
    \/ \E employee_id \in Arrivals, now \in Timestamps : publish(employee_id, now)
    \/ run_once

RunSpec == RunInit /\ [][RunNext]_vars

-----------------------------------------------------------------------------
(* process_orchestrator.py: process_event calls that are not serialized.  Two *)
(* callers each run process_event; a call may be overtaken between its       *)
(* select_seat and its mark_occupied.                                         *)

RaceInit ==
    /\ seats = AllAvailable
    /\ beam_width = DefaultBeamWidth
    /\ last_employee = NoEmployee
    /\ last_candidates = <<>>
    /\ last_result = NoAssignment
    /\ assignments = <<>>
    /\ sent_emails = <<>>
    /\ sent_sms = <<>>
    /\ command_history = <<>>
    /\ events = <<>>
    /\ pending_at_call = <<>>
    /\ ordered_batch = <<>>
    /\ run_once_result = NotCalled
    /\ in_flight = NoneInFlight

InFlight(caller) == in_flight[caller] # Idle

\* process_event up to the allocator's answer: a call that gets no assignment
\* returns, a call that gets one holds it, with the inventory it was decided on.
Decided(caller, employee, candidates, assignment) ==
    /\ last_employee' = employee
    /\ last_candidates' = SeatIdsOf(candidates)
    /\ last_result' = assignment
    /\ in_flight' = IF assignment = NoAssignment THEN in_flight
                    ELSE [ in_flight EXCEPT ![caller] =
                             [ kind       |-> "decided",
                               employee   |-> employee,
                               assignment |-> assignment,
                               snapshot   |-> seats ] ]

\* process_event, lines 45-66
decide(caller, employee_id) ==
    /\ ~InFlight(caller)
    /\ Len(assignments) + Cardinality({ c \in Callers : InFlight(c) }) < MaxAssignments
    /\ IF get_employee(employee_id) = NoEmployee
       THEN /\ last_employee' = NoEmployee
            /\ last_candidates' = <<>>
            /\ last_result' = NoAssignment
            /\ in_flight' = in_flight
       ELSE Decided(caller, get_employee(employee_id), available_seats(seats),
                    select_seat(get_employee(employee_id), available_seats(seats),
                                all_seats(seats), beam_width))
    /\ UNCHANGED <<seats, beam_width, assignments, notified, run_vars>>

\* process_event, lines 68-89
apply(caller) ==
    /\ InFlight(caller)
    /\ seats' = mark_occupied(seats, in_flight[caller].assignment.seat_id,
                              in_flight[caller].employee.employee_id,
                              in_flight[caller].employee.department,
                              in_flight[caller].employee.team)
    /\ sent_emails' = Append(sent_emails,
                             email_message(in_flight[caller].employee, in_flight[caller].assignment))
    /\ sent_sms' = Append(sent_sms,
                          sms_message(in_flight[caller].employee, in_flight[caller].assignment))
    /\ command_history' = Append(command_history, optimize(occupied_zone_counts(seats')))
    /\ assignments' = Append(assignments, in_flight[caller].assignment)
    /\ in_flight' = [ in_flight EXCEPT ![caller] = Idle ]
    /\ UNCHANGED <<beam_width, last_employee, last_candidates, last_result, run_vars>>

RaceNext ==
    \/ \E caller \in Callers, employee_id \in EmployeeIds \cup {UnknownEmployeeId} :
          decide(caller, employee_id)
    \/ \E caller \in Callers : apply(caller)

RaceSpec == RaceInit /\ [][RaceNext]_vars

-----------------------------------------------------------------------------
(* Vocabulary of the properties *)

\* The zone may take the employee's department: with it, the departments of the
\* zone's occupied seats number at most 2.
CapValid(employee, inventory, seat) ==
    Cardinality(zone_departments(inventory, ZoneKey(seat)) \cup {employee.department}) <= 2

\* The call of SelectSeatCall has returned.
Returned == last_result # Pending

IsAssignment(result) == result.kind = "assignment"

\* The seats handed to the latest select_seat call.
Candidates == SeatsAt(seats, last_candidates)

ResultZone == <<last_result.building, last_result.floor, last_result.zone>>

HasAvailableSeat(inventory, zone_key) ==
    \E i \in SeatIds : IsAvailable(inventory[i]) /\ ZoneKey(inventory[i]) = zone_key

-----------------------------------------------------------------------------
(* C1 *)

\* C1 (zone-department cap): starting from an inventory in which every zone's
\* occupied seats represent at most 2 distinct departments, after any sequence
\* of process_event calls every zone's occupied seats still represent at most 2
\* distinct departments.
C1_ZoneDepartmentCap == CapRespected(seats)

\* An employee was seated while a zone that already hosts two other
\* departments still had an available seat.
C1_Witness ==
    /\ IsAssignment(last_result)
    /\ \E z \in ZoneKeys :
          /\ Cardinality(zone_departments(seats, z)) = 2
          /\ last_employee.department \notin zone_departments(seats, z)
          /\ HasAvailableSeat(seats, z)

-----------------------------------------------------------------------------
(* C2 *)

\* C2 (cap validity of select_seat): for any inventory and any candidate list,
\* select_seat returns an assignment if and only if some supplied candidate is
\* cap-valid for the employee, and the returned seat is one of the cap-valid
\* supplied candidates; the lock, its relaxation and the floor narrowing never
\* empty a candidate set that has a cap-valid member.
C2_CapValidity ==
    Returned =>
        LET valid == { i \in DOMAIN Candidates :
                         CapValid(last_employee, seats, Candidates[i]) }
        IN  /\ IsAssignment(last_result) <=> valid # {}
            /\ IsAssignment(last_result) =>
                  \E i \in valid : Candidates[i].seat_id = last_result.seat_id

\* The department anchor zone holds a candidate and is cap-invalid, the lock was
\* relaxed, and a seat of another zone was returned.
C2_Witness ==
    /\ Returned
    /\ IsAssignment(last_result)
    /\ last_result.reasoning.dept_zone_lock_relaxed
    /\ \E i \in DOMAIN Candidates :
          /\ ZoneKey(Candidates[i]) = last_result.reasoning.dept_anchor
          /\ ~CapValid(last_employee, seats, Candidates[i])
    /\ ResultZone # last_result.reasoning.dept_anchor

-----------------------------------------------------------------------------
(* C3 *)

\* The zones in which the employee's team (same department, same team) holds
\* occupied seats.
TeamZones(employee, inventory) ==
    { z \in ZoneKeys : team_zone_counts(employee, inventory, z) > 0 }

CandidateIn(zone_key) ==
    \E i \in DOMAIN Candidates : ZoneKey(Candidates[i]) = zone_key

CandidateOutside(zone_key) ==
    \E i \in DOMAIN Candidates : ZoneKey(Candidates[i]) # zone_key

CapValidCandidateIn(zone_key) ==
    \E i \in DOMAIN Candidates :
        /\ ZoneKey(Candidates[i]) = zone_key
        /\ CapValid(last_employee, seats, Candidates[i])

\* The team occupies exactly the zone z, which has available same-department
\* capacity, and the candidates contain a seat in z and a seat elsewhere.
TeamInOneZone(z) ==
    /\ TeamZones(last_employee, seats) = {z}
    /\ available_same_dept_by_zone(last_employee, seats, z) > 0
    /\ CandidateIn(z)
    /\ CandidateOutside(z)

-----------------------------------------------------------------------------
(* C4 *)

\* C4 (department lock): whenever a department anchor zone exists and at least
\* one supplied candidate in it is cap-valid for the employee, select_seat
\* returns a seat in the department anchor zone.
C4_DepartmentLock ==
    Returned =>
        LET anchor == DeptAnchor(last_employee, seats)
        IN  (anchor # NoZone /\ CapValidCandidateIn(anchor))
            => IsAssignment(last_result) /\ ResultZone = anchor

\* The employee's team sits in another zone than the department anchor, both
\* zones offer a candidate, and the seat returned is in the department anchor.
C4_Witness ==
    /\ Returned
    /\ IsAssignment(last_result)
    /\ LET anchor == DeptAnchor(last_employee, seats)
           team   == TeamAnchor(last_employee, seats)
       IN  /\ anchor # NoZone
           /\ team # NoZone
           /\ team # anchor
           /\ CapValidCandidateIn(anchor)
           /\ CapValidCandidateIn(team)
           /\ ResultZone = anchor

-----------------------------------------------------------------------------
(* C5 *)

\* The department anchor zone cannot take the employee's department.
AnchorCapInvalid(anchor) ==
    /\ anchor # NoZone
    /\ Cardinality(zone_departments(seats, anchor) \cup {last_employee.department}) > 2

\* A zone other than the anchor that already hosts the employee's department.
SecondZone(anchor, z) ==
    z # anchor /\ dept_zone_counts(last_employee, seats, z) > 0

\* A zone hosting nobody of the employee's department.
FreshZone(z) == dept_zone_counts(last_employee, seats, z) = 0

Distance(anchor, z) ==
    IF z[1] = anchor[1] /\ z[2] = anchor[2] THEN 0
    ELSE IF z[1] = anchor[1] THEN 1
    ELSE 2

-----------------------------------------------------------------------------
(* C6 *)

\* The preferred floor of the latest call, which returned an assignment.
PreferredFloorOfCall ==
    LET team_anchor == TeamAnchor(last_employee, seats)
        dept_anchor == DeptAnchor(last_employee, seats)
    IN  preferred_floor(seats, team_anchor, dept_anchor,
                        dept_locked(Candidates, dept_anchor),
                        CapValidDomain(last_employee, Candidates, seats, dept_anchor))

CapValidCandidateOnFloor(floor_key) ==
    \E i \in DOMAIN Candidates :
        /\ FloorKey(Candidates[i]) = floor_key
        /\ CapValid(last_employee, seats, Candidates[i])

CapValidCandidateInBuilding(building) ==
    \E i \in DOMAIN Candidates :
        /\ Candidates[i].building = building
        /\ CapValid(last_employee, seats, Candidates[i])

\* The candidates lie at (same floor, different zone), (different floor, same
\* building) and (different building) of the anchor zone.
CandidatesAround(anchor) ==
    /\ \E i \in DOMAIN Candidates :
          /\ FloorKey(Candidates[i]) = <<anchor[1], anchor[2]>>
          /\ ZoneKey(Candidates[i]) # anchor
          /\ CapValid(last_employee, seats, Candidates[i])
    /\ \E i \in DOMAIN Candidates :
          /\ Candidates[i].building = anchor[1]
          /\ Candidates[i].floor # anchor[2]
    /\ \E i \in DOMAIN Candidates : Candidates[i].building # anchor[1]

\* C6 (floor before building): select_seat narrows to the preferred floor when
\* it has a cap-valid candidate there, and otherwise to the preferred building
\* when it has one there; so among candidates at (same floor, different zone),
\* (different floor, same building) and (different building) of the anchor
\* whose floor is preferred, the returned seat is on the anchor's floor.
C6_FloorBeforeBuilding ==
    (Returned /\ IsAssignment(last_result)) =>
        LET preferred == PreferredFloorOfCall
        IN  /\ CapValidCandidateOnFloor(preferred)
                => <<last_result.building, last_result.floor>> = preferred
            /\ (~CapValidCandidateOnFloor(preferred) /\ CapValidCandidateInBuilding(preferred[1]))
                => last_result.building = preferred[1]
            /\ \A anchor \in {TeamAnchor(last_employee, seats),
                              DeptAnchor(last_employee, seats)} \ {NoZone} :
                  (<<anchor[1], anchor[2]>> = preferred /\ CandidatesAround(anchor))
                  => <<last_result.building, last_result.floor>> = preferred

\* An anchor exists, the candidates lie on its floor in another zone, on
\* another floor of its building in a zone that hosts the department, and in
\* another building; the seat returned is on the anchor's floor.
C6_Witness ==
    /\ Returned
    /\ IsAssignment(last_result)
    /\ LET anchor == TeamAnchor(last_employee, seats)
       IN  /\ anchor # NoZone
           /\ CandidatesAround(anchor)
           /\ ~CandidateIn(anchor)
           /\ \E i \in DOMAIN Candidates :
                 /\ Candidates[i].building = anchor[1]
                 /\ Candidates[i].floor # anchor[2]
                 /\ dept_zone_counts(last_employee, seats, ZoneKey(Candidates[i])) > 0
           /\ <<last_result.building, last_result.floor>> = <<anchor[1], anchor[2]>>
           /\ ResultZone # anchor

-----------------------------------------------------------------------------
(* C7 *)

\* C7 (no seat is assigned twice): every candidate process_event hands to
\* select_seat is available at that moment, the seat an assignment names was
\* available when it was chosen, and all assignments produced in a run name
\* pairwise distinct seats.
C7_NoSeatAssignedTwice ==
    [][ /\ \A k \in DOMAIN last_candidates' : IsAvailable(seats[last_candidates'[k]])
        /\ IsAssignment(last_result') => IsAvailable(seats[last_result'.seat_id])
        /\ \A i, j \in DOMAIN assignments' :
              i # j => assignments'[i].seat_id # assignments'[j].seat_id ]_vars

\* The same employee was seated twice, on two seats, while seats were occupied
\* before the run.
C7_Witness ==
    /\ Len(assignments) >= 2
    /\ \E i, j \in DOMAIN assignments :
          /\ i # j
          /\ assignments[i].employee_id = assignments[j].employee_id
          /\ assignments[i].seat_id # assignments[j].seat_id
    /\ \E i \in SeatIds : IsOccupied(seats[i]) /\ seats[i].occupied_by = TemplateOccupant

-----------------------------------------------------------------------------
(* C8 *)

OccupantFields(seat) ==
    <<seat.status, seat.occupied_by, seat.occupied_department, seat.occupied_team>>

\* C8 (effect of one decision): a process_event call that returns an assignment
\* changes exactly one seat: the targeted seat goes from available to occupied
\* with its occupant set to that employee and the employee's department and
\* team recorded on it, every other seat's status and occupant fields are
\* unchanged, and the occupied-seat count rises by exactly one.
C8_EffectOfOneDecision ==
    [][ IsAssignment(last_result') =>
          LET target   == last_result'.seat_id
              employee == last_employee'
          IN  /\ last_result'.employee_id = employee.employee_id
              /\ IsAvailable(seats[target])
              /\ OccupantFields(seats'[target])
                    = <<"occupied", employee.employee_id, employee.department, employee.team>>
              /\ \A i \in SeatIds \ {target} : seats'[i] = seats[i]
              /\ Cardinality(OccupiedIdx(seats')) = Cardinality(OccupiedIdx(seats)) + 1 ]_vars

\* The latest event seated its employee on a seat whose template names another
\* department, while other seats are occupied and others available.
C8_Witness ==
    /\ IsAssignment(last_result)
    /\ LET seat == seats[last_result.seat_id]
       IN  /\ OccupantFields(seat) = <<"occupied", last_employee.employee_id,
                                       last_employee.department, last_employee.team>>
           /\ seat.department # last_employee.department
    /\ \E i \in SeatIds \ {last_result.seat_id} : IsOccupied(seats[i])
    /\ \E i \in SeatIds : IsAvailable(seats[i])

-----------------------------------------------------------------------------
(* C9 *)

\* C9 (seat status is one-way): no step of a run takes a seat from occupied
\* back to available.
C9_SeatStatusOneWay ==
    [][ \A i \in SeatIds : IsOccupied(seats[i]) => IsOccupied(seats'[i]) ]_vars

\* An employee was seated a second time and the seat of the first assignment
\* is still occupied by that employee.
C9_Witness ==
    \E i, j \in DOMAIN assignments :
        /\ i < j
        /\ assignments[i].employee_id = assignments[j].employee_id
        /\ IsOccupied(seats[assignments[i].seat_id])
        /\ seats[assignments[i].seat_id].occupied_by = assignments[i].employee_id

-----------------------------------------------------------------------------
(* C10 *)

\* C10 (select_seat is read-only): select_seat leaves every seat's status and
\* occupant fields, and the caller's candidate list, unchanged; a call with an
\* empty candidate list returns no assignment and performs no inventory
\* mutation.
C10_SelectSeatReadOnly ==
    [][ /\ seats' = seats
        /\ last_candidates' = last_candidates
        /\ last_candidates = <<>> => last_result' = NoAssignment ]_vars

\* The call returned an assignment and the seat it names is still available.
C10_Witness ==
    /\ Returned
    /\ IsAssignment(last_result)
    /\ IsAvailable(seats[last_result.seat_id])
    /\ last_result.seat_id \in Range(last_candidates)

-----------------------------------------------------------------------------
(* Vocabulary of the properties of run_once *)

\* The latest run_once call has ended, by a return or by an exception.
RunOnceEnded == run_once_result # NotCalled

RunOnceReturned == run_once_result.kind = "returned"

RunOnceRaised == run_once_result.kind = "raised"

Known(event) == event.employee_id \in EmployeeIds

\* The number of events of the list that carry the employee_id.
EventsOf(event_list, employee_id) ==
    Cardinality({ i \in DOMAIN event_list : event_list[i].employee_id = employee_id })

\* The number of recorded messages addressed to the employee.
MessagesTo(messages, employee_id) ==
    Cardinality({ i \in DOMAIN messages : messages[i].to = employee_id })

\* The inventory was all available when run_once was called: it holds at most
\* one occupied seat per event of the call.  Its 8 seats in 4 zones then offer
\* a cap-valid available seat to every employee of the call.
CalledOnFreshInventory == Cardinality(OccupiedIdx(seats)) <= Len(pending_at_call)

\* The events of the call in the order the claim of batch ordering gives them.
PendingAscending == _order_batch(pending_at_call)

-----------------------------------------------------------------------------
(* C11 *)

\* The part of C11 that is about one process_event call: a call that returns
\* no assignment changes no seat and records no email, no SMS and no IoT
\* command, and with an unknown employee select_seat is not invoked.
C11_FailedProcessEvent ==
    [][ last_result' = NoAssignment =>
          /\ seats' = seats
          /\ notified' = notified
          /\ assignments' = assignments
          /\ last_employee' = NoEmployee => last_candidates' = <<>> ]_vars

\* C11 (a failed event has no effect): an event whose employee is unknown, or
\* for which select_seat returns no assignment, changes no seat and records no
\* email, no SMS and no IoT command, and run_once goes on to the next pending
\* event.  After a run_once call on an all-available inventory: nothing was
\* sent to an unknown employee, no seat is held by one, and when an event of the
\* call failed every event of a known employee was still decided, which shows in
\* the email and the SMS sent to that employee.
C11_FailedEventHasNoEffect ==
    (RunOnceEnded /\ CalledOnFreshInventory) =>
        /\ \A i \in DOMAIN sent_emails : sent_emails[i].to \in EmployeeIds
        /\ \A i \in DOMAIN sent_sms : sent_sms[i].to \in EmployeeIds
        /\ \A i \in OccupiedIdx(seats) : seats[i].occupied_by \in EmployeeIds
        /\ Len(command_history) = Len(sent_emails)
        /\ (\E i \in DOMAIN pending_at_call : ~Known(pending_at_call[i])) =>
              \A e \in EmployeeIds :
                  /\ MessagesTo(sent_emails, e) = EventsOf(pending_at_call, e)
                  /\ MessagesTo(sent_sms, e) = EventsOf(pending_at_call, e)

-----------------------------------------------------------------------------
(* C12 *)

\* The part of C12 that is about consecutive process_event calls: the
\* candidates of each select_seat call hold no seat assigned before, and every
\* seat assigned before is in the inventory the call reads, occupied, with the
\* department and the team of its occupant.
C12_FreshBetweenProcessEvents ==
    [][ \A k \in DOMAIN assignments :
          /\ assignments[k].seat_id \notin Range(last_candidates')
          /\ IsOccupied(seats[assignments[k].seat_id])
          /\ seats[assignments[k].seat_id].occupied_department
               = EmployeeTable[assignments[k].employee_id].department
          /\ seats[assignments[k].seat_id].occupied_team
               = EmployeeTable[assignments[k].employee_id].team ]_vars

\* C12 (fresh aggregates between decisions): within run_once the seat assigned
\* for event k is occupied, with the actual department and team of its
\* occupant, when select_seat is called for event k+1, also within a batch.
\* After a run_once call on an all-available inventory with two or more pending
\* events of known employees: there is a decision for each of them, the seat of
\* each decision is occupied with the department and team of its employee, no
\* two decisions name the same seat, and the candidates of the last select_seat
\* call held none of the seats assigned before it.
C12_FreshAggregates ==
    ( /\ RunOnceEnded
      /\ CalledOnFreshInventory
      /\ Len(pending_at_call) >= 2
      /\ \A i \in DOMAIN pending_at_call : Known(pending_at_call[i]) ) =>
        /\ Len(assignments) = Len(pending_at_call)
        /\ \A k \in DOMAIN assignments :
              /\ IsOccupied(seats[assignments[k].seat_id])
              /\ seats[assignments[k].seat_id].occupied_department
                   = EmployeeTable[assignments[k].employee_id].department
              /\ seats[assignments[k].seat_id].occupied_team
                   = EmployeeTable[assignments[k].employee_id].team
              /\ \A j \in DOMAIN assignments :
                    j # k => assignments[j].seat_id # assignments[k].seat_id
              /\ k < Len(assignments) => assignments[k].seat_id \notin Range(last_candidates)

-----------------------------------------------------------------------------
(* C13 *)

\* The part of C13 that is about the batch run_once orders: the ordered batch
\* of a call is the beginning of the call's pending events in ascending order.
C13_BatchIsGlobalPrefix ==
    RunOnceEnded => ordered_batch = Take(PendingAscending, Len(ordered_batch))

\* C13 (batch ordering): the events pending together at a run_once call, any
\* number of them, are processed in ascending order of (department, team,
\* arrival timestamp, employee id).  After a run_once call on an all-available
\* inventory with pending events of known employees only, every event has its
\* email, and the emails are addressed in that ascending order.
C13_BatchOrdering ==
    ( /\ RunOnceEnded
      /\ CalledOnFreshInventory
      /\ \A i \in DOMAIN pending_at_call : Known(pending_at_call[i]) ) =>
        /\ Len(sent_emails) = Len(pending_at_call)
        /\ \A k \in DOMAIN sent_emails : sent_emails[k].to = PendingAscending[k].employee_id

-----------------------------------------------------------------------------
(* C14 *)

\* C14 (run_once outcome): for pending events of known employees, each with a
\* cap-valid available seat, run_once returns exactly one assignment per event,
\* each assigned seat ends occupied by the event's employee, and the numbers of
\* emails, of SMS and of assignments are equal.
C14_RunOnceOutcome ==
    ( /\ RunOnceEnded
      /\ CalledOnFreshInventory
      /\ \A i \in DOMAIN pending_at_call : Known(pending_at_call[i]) ) =>
        /\ RunOnceReturned
        /\ Len(run_once_result.assignments) = Len(pending_at_call)
        /\ \A e \in EmployeeIds :
              Cardinality({ k \in DOMAIN run_once_result.assignments :
                              run_once_result.assignments[k].employee_id = e })
                = EventsOf(pending_at_call, e)
        /\ \A k \in DOMAIN run_once_result.assignments :
              seats[run_once_result.assignments[k].seat_id].occupied_by
                = run_once_result.assignments[k].employee_id
        /\ Len(sent_emails) = Len(run_once_result.assignments)
        /\ Len(sent_sms) = Len(run_once_result.assignments)

-----------------------------------------------------------------------------
(* C15 *)

\* C15 (run_once terminates normally): called with any finite set of pending
\* events, run_once raises no exception and returns after a decision has been
\* attempted for every event that was pending.  A call that ended has returned
\* and has left no event pending, and on an all-available inventory every
\* event of a known employee has its email.
C15_RunOnceTerminatesNormally ==
    [][ run_once =>
          /\ run_once_result'.kind = "returned"
          /\ events' = <<>>
          /\ CalledOnFreshInventory' =>
                \A e \in EmployeeIds :
                    MessagesTo(sent_emails', e) = EventsOf(pending_at_call', e) ]_vars

-----------------------------------------------------------------------------
(* C16 *)

\* The two lists hold the same events the same number of times.
SameEvents(a, b) ==
    /\ Len(a) = Len(b)
    /\ \A x \in Range(a) \cup Range(b) :
          Cardinality({ i \in DOMAIN a : a[i] = x }) = Cardinality({ i \in DOMAIN b : b[i] = x })

\* C16 (arrival stream drain): the events a run_once call takes from the stream
\* are the first pending ones in publication order, each once; they are removed
\* from the stream, the events behind them stay in their order, so that no
\* later drain delivers a drained event again; and a call that returns leaves
\* no pending event in the stream.
C16_StreamDrain ==
    [][ run_once =>
          /\ Len(ordered_batch') <= Len(events)
          /\ SameEvents(ordered_batch', SubSeq(events, 1, Len(ordered_batch')))
          /\ events' = SubSeq(events, Len(ordered_batch') + 1, Len(events))
          /\ run_once_result'.kind = "returned" => events' = <<>> ]_vars

\* A call found three pending events, took the first two and left the third.
C16_Witness ==
    /\ RunOnceEnded
    /\ Len(pending_at_call) = 3
    /\ Len(ordered_batch) = 2
    /\ pending_at_call[1] # pending_at_call[2]
    /\ events = <<pending_at_call[3]>>

-----------------------------------------------------------------------------
(* C17 *)

\* C17 as stated (caller-side candidate narrowing): every candidate seat that
\* process_event hands to select_seat is available and has a template
\* department equal to the requesting employee's department.
C17_CallerSideNarrowing_AsStated ==
    [][ last_employee' # NoEmployee =>
          \A id \in Range(last_candidates') :
              /\ IsAvailable(seats[id])
              /\ seats[id].department = last_employee'.department ]_vars

\* C17, amended: the candidates process_event hands to select_seat are the
\* available seats of the inventory, all of them and no other seat, in the
\* inventory's order, whatever their template department.
C17_CandidatesAreTheAvailableSeats ==
    [][ last_employee' # NoEmployee =>
          /\ \A id \in Range(last_candidates') : IsAvailable(seats[id])
          /\ \A i \in SeatIds : IsAvailable(seats[i]) => i \in Range(last_candidates')
          /\ \A p, q \in DOMAIN last_candidates' :
                p < q => last_candidates'[p] < last_candidates'[q] ]_vars

\* process_event handed select_seat a candidate whose template department is
\* not the employee's, and the employee was given such a seat.
C17_Witness ==
    /\ last_employee # NoEmployee
    /\ IsAssignment(last_result)
    /\ seats[last_result.seat_id].department # last_employee.department
    /\ \E id \in Range(last_candidates) :
          id # last_result.seat_id /\ seats[id].department # last_employee.department

-----------------------------------------------------------------------------
(* C18 *)

\* The run started from an all-available inventory: every occupied seat is the
\* seat of an assignment of the run.
StartedAllAvailable == Cardinality(OccupiedIdx(seats)) = Len(assignments)

AssignmentZone(k) == <<assignments[k].building, assignments[k].floor, assignments[k].zone>>

AssignmentDepartment(k) == EmployeeTable[assignments[k].employee_id].department

\* The assignments of the run that went to the department, oldest first.
DepartmentAssignments(department) ==
    { k \in DOMAIN assignments : AssignmentDepartment(k) = department }

\* The zone of the department's first assignment.
FirstZone(department) == AssignmentZone(Min(DepartmentAssignments(department)))

ZoneSize(zone_key) == Cardinality({ i \in SeatIds : SeatLocation[i] = zone_key })

\* In a run started all available, the zone had an available seat when the
\* k-th assignment was decided: the assignments before it had not filled it.
ZoneHadSeatAt(zone_key, k) ==
    Cardinality({ j \in 1..(k - 1) : AssignmentZone(j) = zone_key }) < ZoneSize(zone_key)

Departments == { EmployeeTable[e].department : e \in EmployeeIds }

\* The zone the department used first still had an available seat at each of
\* the department's assignments.
FirstZoneHadRoom(department) ==
    \A k \in DepartmentAssignments(department) : ZoneHadSeatAt(FirstZone(department), k)

\* The zones holding an occupied seat of the department.
DepartmentZones(department) ==
    { ZoneKey(seats[i]) :
        i \in { j \in OccupiedIdx(seats) : OccupiedDepartment(seats[j]) = department } }

\* C18 (department stays in one zone): starting from an all-available
\* inventory, for a department whose first-used zone still had an available
\* seat at each of its arrivals, all occupied seats of the department lie in
\* one zone, the zone it used first.
C18_DepartmentStaysInOneZone ==
    StartedAllAvailable =>
        \A department \in Departments :
            ( /\ DepartmentAssignments(department) # {}
              /\ FirstZoneHadRoom(department) ) =>
                DepartmentZones(department) = {FirstZone(department)}

\* Dept-A has at least three seats, of both its teams, all in the zone it used
\* first, while another department holds a seat too.
C18_Witness ==
    /\ StartedAllAvailable
    /\ Cardinality(DepartmentAssignments("Dept-A")) >= 3
    /\ FirstZoneHadRoom("Dept-A")
    /\ DepartmentZones("Dept-A") = {FirstZone("Dept-A")}
    /\ \E i, j \in OccupiedIdx(seats) :
          /\ seats[i].occupied_team = "Team-A1"
          /\ seats[j].occupied_team = "Team-A2"
    /\ \E i \in OccupiedIdx(seats) : OccupiedDepartment(seats[i]) # "Dept-A"

\* A department left the zone it used first, which was full at its arrival.
C18_Spill ==
    /\ StartedAllAvailable
    /\ \E department \in Departments :
          /\ DepartmentAssignments(department) # {}
          /\ Cardinality(DepartmentZones(department)) >= 2

-----------------------------------------------------------------------------
(* C19 *)

\* The inventory in which every occupied seat carries one department and one
\* team, as template and as occupant values alike: the occupant's where they
\* are recorded, the template's where they are not.
SingleTagged(inventory) ==
    [ i \in DOMAIN inventory |->
        IF inventory[i].status # "occupied" THEN inventory[i]
        ELSE LET department == IF inventory[i].occupied_department = None
                               THEN inventory[i].department
                               ELSE inventory[i].occupied_department
                 team       == IF inventory[i].occupied_team = None
                               THEN inventory[i].team_cluster
                               ELSE inventory[i].occupied_team
             IN  [ inventory[i] EXCEPT !.department          = department,
                                       !.occupied_department = department,
                                       !.team_cluster        = team,
                                       !.occupied_team       = team ] ]

\* C19 (actual occupant overrides template): the zone department sets, the
\* department and team zone counts and the anchors of a call are those of the
\* inventory in which each occupied seat is tagged with its occupant's recorded
\* department and team alone, or with its template where none is recorded: a
\* recorded occupant value hides the template, an unset one lets it through.
C19_ActualOverridesTemplate ==
    Returned =>
        /\ \A z \in ZoneKeys :
              /\ zone_departments(seats, z) = zone_departments(SingleTagged(seats), z)
              /\ dept_zone_counts(last_employee, seats, z)
                   = dept_zone_counts(last_employee, SingleTagged(seats), z)
              /\ team_zone_counts(last_employee, seats, z)
                   = team_zone_counts(last_employee, SingleTagged(seats), z)
        /\ TeamAnchor(last_employee, seats) = TeamAnchor(last_employee, SingleTagged(seats))
        /\ DeptAnchor(last_employee, seats) = DeptAnchor(last_employee, SingleTagged(seats))

\* The decision of the call is the decision on the single-tagged inventory.
C19_DecisionIgnoresHiddenTemplate ==
    Returned =>
        last_result = select_seat(last_employee, SeatsAt(SingleTagged(seats), last_candidates),
                                  all_seats(SingleTagged(seats)), beam_width)

\* A seat whose template department is not its occupant's makes its zone the
\* department anchor of the employee, the template department is absent from
\* the zone's department set, and another occupied seat has no occupant values.
C19_Witness ==
    /\ Returned
    /\ \E i \in OccupiedIdx(seats) :
          /\ seats[i].occupied_department # None
          /\ seats[i].occupied_department # seats[i].department
          /\ seats[i].occupied_department = last_employee.department
          /\ DeptAnchor(last_employee, seats) = ZoneKey(seats[i])
          /\ seats[i].department \notin zone_departments(seats, ZoneKey(seats[i]))
    /\ \E j \in OccupiedIdx(seats) :
          /\ seats[j].occupied_department = None
          /\ seats[j].department \in zone_departments(seats, ZoneKey(seats[j]))

-----------------------------------------------------------------------------
(* C21 *)

\* The lists that hold the elements of seq, each once, in any order.
Orderings(seq) ==
    { [ k \in DOMAIN seq |-> seq[p[k]] ] :
        p \in { q \in [DOMAIN seq -> DOMAIN seq] : \A i, j \in DOMAIN seq : i # j => q[i] # q[j] } }

\* C21 (input-order independence): the seat select_seat returns does not depend
\* on the order in which the candidate seats are listed: the call on the same
\* candidates listed in any other order returns the same seat.
C21_InputOrderIndependence ==
    (Returned /\ IsAssignment(last_result)) =>
        \A listed \in Orderings(last_candidates) :
            select_seat(last_employee, SeatsAt(seats, listed),
                        all_seats(seats), beam_width).seat_id = last_result.seat_id

-----------------------------------------------------------------------------
(* C22 *)

\* Two assignments name the same seat.
SeatAssignedTwice ==
    \E i, j \in DOMAIN assignments : i < j /\ assignments[i].seat_id = assignments[j].seat_id

\* Some zone's occupied seats represent three departments.
ThreeDepartmentsInAZone == ~CapRespected(seats)

\* The call of the caller is applied by this step, and the inventory is no
\* longer the one it was decided on.
AppliesStaleDecision(caller) ==
    /\ InFlight(caller)
    /\ in_flight'[caller] = Idle
    /\ in_flight[caller].snapshot # seats

\* C22 (serialization is required): a seat assigned twice, or a zone occupied by
\* three departments, arises only in a step that applies a decision computed
\* on an inventory that another decision has changed since; and such steps do
\* lead to both (C22_Witness, C22_SameSeatTwice).
C22_SerializationRequired ==
    [][ ( \/ SeatAssignedTwice' /\ ~SeatAssignedTwice
          \/ ThreeDepartmentsInAZone' /\ ~ThreeDepartmentsInAZone ) =>
            \E caller \in Callers : AppliesStaleDecision(caller) ]_vars

\* A zone is occupied by three departments, each by an assignment of the run.
C22_Witness ==
    /\ ThreeDepartmentsInAZone
    /\ Cardinality(OccupiedIdx(seats)) <= Len(assignments)

\* Two decisions of the run name the same seat.
C22_SameSeatTwice == SeatAssignedTwice

-----------------------------------------------------------------------------
(* C23 *)

AnchorFloor(anchor) == <<anchor[1], anchor[2]>>

\* The candidates that remain after the lock and the cap.
RemainingCandidates ==
    CapValidDomain(last_employee, Candidates, seats, DeptAnchor(last_employee, seats))

OnFloor(seat_list, floor_key) ==
    \E i \in DOMAIN seat_list : FloorKey(seat_list[i]) = floor_key

\* The department lock is engaged: a department anchor exists and a candidate
\* lies in it.
LockEngaged ==
    /\ DeptAnchor(last_employee, seats) # NoZone
    /\ \E i \in DOMAIN Candidates : ZoneKey(Candidates[i]) = DeptAnchor(last_employee, seats)

\* The order of C23 as stated: team anchor, department anchor, most-loaded
\* floor, smallest floor of the remaining candidates.  (The code has one team
\* anchor, which counts seats of the employee's department and team.)
StatedPreferredFloor(team_anchor, dept_anchor, remaining) ==
    IF team_anchor # NoZone THEN AnchorFloor(team_anchor)
    ELSE IF dept_anchor # NoZone THEN AnchorFloor(dept_anchor)
    ELSE IF OccupiedIdx(seats) # {} THEN MostLoadedFloor(seats)
    ELSE MinFloor({ FloorKey(remaining[i]) : i \in DOMAIN remaining })

\* The order with the engaged lock first.
LockFirstPreferredFloor(team_anchor, dept_anchor, remaining) ==
    IF /\ dept_anchor # NoZone
       /\ \E i \in DOMAIN Candidates : ZoneKey(Candidates[i]) = dept_anchor
    THEN AnchorFloor(dept_anchor)
    ELSE StatedPreferredFloor(team_anchor, dept_anchor, remaining)

\* The call narrowed to the floor exactly when a remaining candidate is there,
\* and then returned a seat on it.
NarrowedTo(floor_key, remaining) ==
    /\ last_result.reasoning.domain_reduction_floor_pref = OnFloor(remaining, floor_key)
    /\ OnFloor(remaining, floor_key)
         => <<last_result.building, last_result.floor>> = floor_key

\* C23 as stated (preferred floor derivation): the preferred floor is the team
\* anchor's, else the department anchor's, else the most-loaded floor, else the
\* smallest floor among the remaining candidates; the call narrows to it when a
\* remaining candidate is there, reports the narrowing, and returns a seat on it.
C23_PreferredFloor_AsStated ==
    (Returned /\ IsAssignment(last_result)) =>
        NarrowedTo(StatedPreferredFloor(TeamAnchor(last_employee, seats),
                                        DeptAnchor(last_employee, seats),
                                        RemainingCandidates),
                   RemainingCandidates)

\* C23, amended: the preferred floor is the department anchor's when the
\* department lock is engaged, else the team anchor's, else the department
\* anchor's, else the most-loaded floor, else the smallest floor among the
\* remaining candidates; the call narrows to it when a remaining candidate is
\* there, reports the narrowing, and returns a seat on it.  In particular with
\* no anchor and some seat occupied the returned seat is on the most-loaded
\* floor when a cap-valid candidate is there.
C23_PreferredFloor ==
    (Returned /\ IsAssignment(last_result)) =>
        /\ NarrowedTo(LockFirstPreferredFloor(TeamAnchor(last_employee, seats),
                                              DeptAnchor(last_employee, seats),
                                              RemainingCandidates),
                      RemainingCandidates)
        /\ ( /\ OccupiedIdx(seats) # {}
             /\ TeamAnchor(last_employee, seats) = NoZone
             /\ DeptAnchor(last_employee, seats) = NoZone
             /\ CapValidCandidateOnFloor(MostLoadedFloor(seats)) )
             => <<last_result.building, last_result.floor>> = MostLoadedFloor(seats)

\* The lock is engaged on a department anchor whose floor is not the team
\* anchor's, a cap-valid candidate lies on the team anchor's floor, and the
\* call narrowed to the department anchor's floor.
C23_Witness ==
    /\ Returned
    /\ IsAssignment(last_result)
    /\ LockEngaged
    /\ TeamAnchor(last_employee, seats) # NoZone
    /\ AnchorFloor(TeamAnchor(last_employee, seats))
         # AnchorFloor(DeptAnchor(last_employee, seats))
    /\ CapValidCandidateOnFloor(AnchorFloor(TeamAnchor(last_employee, seats)))
    /\ last_result.reasoning.domain_reduction_floor_pref
    /\ <<last_result.building, last_result.floor>>
         = AnchorFloor(DeptAnchor(last_employee, seats))

\* No anchor, some seat occupied, candidates on the most-loaded floor and on
\* another floor: the seat returned is on the most-loaded floor.
C23_MostLoadedFloorCase ==
    /\ Returned
    /\ IsAssignment(last_result)
    /\ TeamAnchor(last_employee, seats) = NoZone
    /\ DeptAnchor(last_employee, seats) = NoZone
    /\ OccupiedIdx(seats) # {}
    /\ CapValidCandidateOnFloor(MostLoadedFloor(seats))
    /\ \E i \in DOMAIN Candidates : FloorKey(Candidates[i]) # MostLoadedFloor(seats)

-----------------------------------------------------------------------------
(* C24: anchor discovery *)

\* The occupied seats of the employee's department and team, and of the
\* employee's department, by position in the iteration order of the seats.
TeamMatching ==
    { i \in OccupiedIdx(seats) : MatchesTeam(last_employee, seats[i]) }

DeptMatching ==
    { i \in OccupiedIdx(seats) : MatchesDepartment(last_employee, seats[i]) }

MatchingIn(matching, zone_key) == { i \in matching : ZoneKey(seats[i]) = zone_key }

\* The position at which the zone is first encountered among the matching seats.
FirstEncounter(matching, zone_key) ==
    CHOOSE i \in MatchingIn(matching, zone_key) :
        \A j \in MatchingIn(matching, zone_key) : i <= j

\* anchor is the zone of the largest matching count, the first encountered among
\* the zones of that count, and absent exactly when nothing matches.
AnchorOf(anchor, matching) ==
    IF matching = {} THEN anchor = NoZone
    ELSE /\ anchor # NoZone
         /\ MatchingIn(matching, anchor) # {}
         /\ \A i \in matching :
              LET other == ZoneKey(seats[i])
              IN  \/ Cardinality(MatchingIn(matching, other))
                       < Cardinality(MatchingIn(matching, anchor))
                  \/ /\ Cardinality(MatchingIn(matching, other))
                          = Cardinality(MatchingIn(matching, anchor))
                     /\ FirstEncounter(matching, anchor) <= FirstEncounter(matching, other)

\* C24 (anchor discovery): the team anchor a call reports is the zone with the
\* most occupied seats of the employee's department and team, the department
\* anchor the zone with the most occupied seats of the employee's department; a
\* tie is won by the zone first encountered among the occupied seats, and an
\* anchor is absent exactly when no occupied seat matches.
C24_AnchorDiscovery ==
    (Returned /\ IsAssignment(last_result)) =>
        /\ AnchorOf(last_result.reasoning.team_anchor, TeamMatching)
        /\ AnchorOf(last_result.reasoning.dept_anchor, DeptMatching)

\* A call that reported a department anchor which won a tie against a zone
\* encountered later, and no team anchor.
C24_Witness ==
    /\ Returned /\ IsAssignment(last_result)
    /\ last_result.reasoning.team_anchor = NoZone
    /\ last_result.reasoning.dept_anchor # NoZone
    /\ \E i \in DeptMatching :
          /\ ZoneKey(seats[i]) # last_result.reasoning.dept_anchor
          /\ Cardinality(MatchingIn(DeptMatching, ZoneKey(seats[i])))
               = Cardinality(MatchingIn(DeptMatching, last_result.reasoning.dept_anchor))

-----------------------------------------------------------------------------
(* C25: the lookahead term *)

\* The beam of the latest call.
BeamMembers ==
    IF Candidates = <<>> THEN {}
    ELSE LET d == Decision(last_employee, Candidates, seats, beam_width)
         IN  { d.candidate_seats[d.beam[k]] : k \in DOMAIN d.beam }

\* The available seats of the member's zone that are designated for the
\* employee's department, and those designated for the employee's team too.
AvailableInZoneOf(member) ==
    { i \in DOMAIN seats : seats[i].status = "available" /\ ZoneKey(seats[i]) = ZoneKey(member) }

SameDeptRemaining(member) ==
    Cardinality({ i \in AvailableInZoneOf(member) :
                    seats[i].department = last_employee.department })

SameTeamRemaining(member) ==
    Cardinality({ i \in AvailableInZoneOf(member) :
                    /\ seats[i].department = last_employee.department
                    /\ seats[i].team_cluster = last_employee.team })

\* max(0, T-1) * team_weight + max(0, D-1) * dept_weight, in units of 1 / ScoreScale
WeightedLookahead(member, team_weight, dept_weight) ==
    ( (IF SameTeamRemaining(member) > 1 THEN SameTeamRemaining(member) - 1 ELSE 0) * team_weight
    + (IF SameDeptRemaining(member) > 1 THEN SameDeptRemaining(member) - 1 ELSE 0) * dept_weight )
    * ScoreScale

\* C25 as stated (lookahead term): for each beam member the lookahead bonus is
\* max(0, T-1)*130 + max(0, D-1)*90, T the available seats of the member's zone
\* matching the employee's team and D those matching the employee's department.
C25_Lookahead_AsStated ==
    Returned =>
        \A member \in BeamMembers :
            lookahead_score(last_employee, seats, member) = WeightedLookahead(member, 130, 90)

\* C25, amended: for each beam member the lookahead bonus is
\* max(0, T-1)*100 + max(0, D-1)*65, T the available seats of the member's zone
\* designated for the employee's department and team and D those designated
\* for the employee's department.
C25_Lookahead ==
    Returned =>
        \A member \in BeamMembers :
            lookahead_score(last_employee, seats, member) = WeightedLookahead(member, 100, 65)

\* A returned call whose beam holds a member with two or more remaining seats
\* of the team and more remaining seats of the department than of the team.
C25_Witness ==
    /\ Returned
    /\ \E member \in BeamMembers :
          /\ SameTeamRemaining(member) >= 2
          /\ SameDeptRemaining(member) > SameTeamRemaining(member)

-----------------------------------------------------------------------------
(* C26: seat adjacency within the team's zone *)

\* The candidates of the department anchor zone whose seat number is one more
\* than the highest seat number the employee's department and team occupy there.
NextForTeam(dept_anchor) ==
    { i \in DOMAIN Candidates :
        /\ ZoneKey(Candidates[i]) = dept_anchor
        /\ TeamDigitSeats(last_employee, seats, dept_anchor) # {}
        /\ IsDigit(Suffix(Candidates[i]))
        /\ Suffix(Candidates[i])
             = Max({ Suffix(seats[j]) : j \in TeamDigitSeats(last_employee, seats, dept_anchor) }) + 1 }

\* The department anchor zone is cap-valid for the employee.
AnchorCapValid(dept_anchor) ==
    \/ last_employee.department \in zone_departments(seats, dept_anchor)
    \/ Cardinality(zone_departments(seats, dept_anchor)) < 2

AdjacentSeatReturned(dept_anchor) ==
    (dept_anchor # NoZone /\ AnchorCapValid(dept_anchor)) =>
        \A i \in NextForTeam(dept_anchor) :
            /\ IsAssignment(last_result)
            /\ last_result.seat_id = Candidates[i].seat_id

-----------------------------------------------------------------------------
(* C27: the power commands follow the decision *)

\* The seats occupied once the k-th assignment of the run was marked: seats are
\* never released, so these are the occupied seats but those assigned later.
OccupiedAfter(k) ==
    OccupiedIdx(seats) \ { assignments[j].seat_id : j \in (k + 1)..Len(assignments) }

OccupiedZonesAfter(k) == { ZoneKey(seats[i]) : i \in OccupiedAfter(k) }

\* The zones that were sent POWER_ON, and POWER_OFF, in the k-th round.
PoweredOn(k) == Range(command_history[k].power_on)

PoweredOff(k) == command_history[k].power_off

\* C27 (power commands follow the decision): every successful process_event
\* sends one round of commands, in which POWER_ON goes to the zone of the seat
\* just assigned and to every zone with an occupied seat, POWER_OFF goes only to
\* known zones without an occupied seat, and no zone gets both.
C27_PowerFollowsDecision ==
    /\ Len(command_history) = Len(assignments)
    /\ \A k \in DOMAIN command_history :
          /\ AssignmentZone(k) \in PoweredOn(k)
          /\ OccupiedZonesAfter(k) \subseteq PoweredOn(k)
          /\ PoweredOff(k) \subseteq known_zones \ OccupiedZonesAfter(k)
          /\ PoweredOn(k) \cap PoweredOff(k) = {}

\* A round that switched on a zone the round before had switched off.
C27_Witness ==
    \E k \in DOMAIN command_history :
        /\ k > 1
        /\ AssignmentZone(k) \in PoweredOff(k - 1)
        /\ AssignmentZone(k) \in PoweredOn(k)
        /\ PoweredOff(k) # {}

-----------------------------------------------------------------------------
(* C28: the anchor-preservation safeguard *)

\* The members of the re-ranked beam that lie in the department anchor zone.
AnchoredMembers(d) ==
    { k \in DOMAIN d.ranked_with_lookahead :
        d.dept_anchor # NoZone /\ ZoneKey(d.ranked_with_lookahead[k]) = d.dept_anchor }

\* The call returned the top of the re-ranked beam, and the beam lies in the
\* department anchor zone as a whole or not at all.
SafeguardChangesNothing(d) ==
    /\ last_result.seat_id = d.ranked_with_lookahead[1].seat_id
    /\ AnchoredMembers(d) \in {{}, DOMAIN d.ranked_with_lookahead}

\* C28 (the anchor-preservation safeguard never changes the result): the seat a
\* call returns is the top entry of the beam re-ranked by base score plus
\* lookahead, and whenever some beam member lies in the department anchor zone
\* every beam member lies in it.
C28_SafeguardChangesNothing ==
    (Returned /\ IsAssignment(last_result)) =>
        SafeguardChangesNothing(Decision(last_employee, Candidates, seats, beam_width))

\* The safeguard applied to a beam of two or more members.
SafeguardApplied(d) ==
    /\ Cardinality(AnchoredMembers(d)) >= 2
    /\ available_same_dept_by_zone(last_employee, seats, d.dept_anchor) > 0

\* A returned call in which the safeguard applied to two or more beam members
\* of the department anchor zone.
C28_Witness ==
    /\ Returned /\ IsAssignment(last_result)
    /\ SafeguardApplied(Decision(last_employee, Candidates, seats, beam_width))

\* A returned call whose lock was relaxed, with a beam outside the department
\* anchor zone.
C28_RelaxedLockCase ==
    /\ Returned /\ IsAssignment(last_result)
    /\ last_result.reasoning.dept_zone_lock_relaxed
    /\ last_result.reasoning.dept_anchor # NoZone

-----------------------------------------------------------------------------
(* C29: the lock is never relaxed in cap-respecting runs *)

\* The department anchor of the requesting employee, if there is one, is a zone
\* in which a seat of that department is cap-valid.
AnchorZoneCapValidFor(employee) ==
    DeptAnchor(employee, seats) # NoZone =>
        /\ employee.department \in zone_departments(seats, DeptAnchor(employee, seats))
        /\ Cardinality(zone_departments(seats, DeptAnchor(employee, seats))
                       \cup {employee.department}) <= 2

\* C29 (lock relaxation is unreachable in cap-respecting runs): in every state
\* reached by process_event decisions from an inventory whose zones each hold
\* at most 2 departments, the department anchor zone of every employee is
\* cap-valid for that employee, and no assignment was decided with the lock
\* relaxed.
C29_LockNeverRelaxed ==
    /\ \A e \in EmployeeIds : AnchorZoneCapValidFor(EmployeeTable[e])
    /\ \A k \in DOMAIN assignments : ~assignments[k].reasoning.dept_zone_lock_relaxed
    /\ IsAssignment(last_result) => ~last_result.reasoning.dept_zone_lock_relaxed

\* A run from an inventory that holds two departments in one zone, in which an
\* assignment was decided under the engaged lock in a zone of two departments.
C29_Witness ==
    \E k \in DOMAIN assignments :
        /\ assignments[k].reasoning.dept_zone_lock
        /\ ~assignments[k].reasoning.dept_zone_lock_relaxed
        /\ Cardinality(zone_departments(seats, AssignmentZone(k))) = 2

-----------------------------------------------------------------------------
(* C30: seats per employee *)

\* The seats the run assigned that the employee occupies.
SeatsHeldBy(employee_id) ==
    { i \in SeatIds :
        /\ IsOccupied(seats[i])
        /\ seats[i].occupied_by = employee_id
        /\ \E k \in DOMAIN assignments : assignments[k].seat_id = i }

\* The assignments of the run made to the employee.
AssignmentsTo(employee_id) ==
    { k \in DOMAIN assignments : assignments[k].employee_id = employee_id }

\* C30 as stated (one seat per employee): after any sequence of process_event
\* calls no employee id is the occupied_by of more than one seat, and an
\* employee who arrives again while seated is not given a second seat.
C30_OneSeatPerEmployee_AsStated ==
    \A e \in EmployeeIds :
        /\ Cardinality(SeatsHeldBy(e)) <= 1
        /\ Cardinality(AssignmentsTo(e)) <= 1

\* C30, amended (one seat per served arrival): after any sequence of serial
\* process_event calls every assignment made holds a seat of its own, occupied
\* by the employee it was made to, so an employee occupies as many of the
\* assigned seats as arrivals of theirs were served.
C30_OneSeatPerServedArrival ==
    /\ \A i, j \in DOMAIN assignments :
          assignments[i].seat_id = assignments[j].seat_id => i = j
    /\ \A k \in DOMAIN assignments :
          /\ IsOccupied(seats[assignments[k].seat_id])
          /\ seats[assignments[k].seat_id].occupied_by = assignments[k].employee_id
    /\ \A e \in EmployeeIds :
          Cardinality(SeatsHeldBy(e)) = Cardinality(AssignmentsTo(e))

\* An employee who arrived three times occupies three seats.
C30_Witness ==
    \E e \in EmployeeIds :
        /\ Cardinality(AssignmentsTo(e)) = 3
        /\ Cardinality(SeatsHeldBy(e)) = 3

====
